---- MODULE Spec2Model ----
(***************************************************************************)
(* A model of gopherfs/fs: the in-memory filesystem (io/mem/simple) and    *)
(* the cache composition engine (io/cache).                                *)
(*                                                                         *)
(* Go strings that the code parses (file names) are sequences of           *)
(* one-character strings, so that TrimPrefix, HasSuffix, Split and the     *)
(* byte-wise ordering of names are computed as the code computes them.     *)
(* File contents are opaque byte strings.                                  *)
(***************************************************************************)
EXTENDS Integers, Sequences, FiniteSets, Bags, TLC

VARIABLES
    tiers,      \* the chain of memory filesystems T1..Tn (n = 1: one filesystem)
    opts,       \* per tier, the options handed to simple.New
    pending,    \* bag of background fills started by cache.FS.ReadFile
    last,       \* the most recent step and what it returned
    seen,       \* names an outermost ReadFile has returned (recorded in SpecFill only)
    dsk,        \* the disk cache (io/cache/disk): clock, backing files, index, goroutines
    comp,       \* the rest of a memory / disk / os composition: the os store, each FilledBy
    procs,      \* concurrent callers of one memory filesystem: each one's call and position
    handles     \* the WRFile handles that OpenFile of a memory filesystem has returned

vars == <<tiers, opts, pending, last, seen, dsk, comp, procs, handles>>

(***************************************************************************)
(* Bounds of the model.                                                    *)
(***************************************************************************)
MaxPending == 2
\* WriteFile calls made on one memory filesystem (FS.items only grows).
MaxItems == 4
\* The last tick of the disk cache's clock.
MaxTime == 3

(***************************************************************************)
(* Names, contents, errors.                                                *)
(***************************************************************************)
NameA == <<"a">>
NameSlashA == <<"/", "a">>
NameAB == <<"a", "/", "b">>
NameB == <<"b">>
NameD == <<"d">>
NameDA == <<"d", "/", "a">>
NameDSlash == <<"d", "/">>
NameDot == <<".">>
NameSlash == <<"/">>
NameEmpty == <<>>

Contents == {"c1", "c2"}

Nil == "nil"
NoBytes == "<nil>"
ErrNotExist == "fs.ErrNotExist"
ErrExist == "fs.ErrExist"
ErrInvalid == "fs.ErrInvalid"
ErrNotADirectory == "not a directory"
ErrReadDir == "cannot read a directory"
ErrLocked == "Simple is locked from writing"
ErrWriteDir == "cannot write a file directory"
ErrElemNotDir == "name contains element that is not a directory"
Panic == "panic"
ErrDirNotEmpty == "directory was not empty"
ErrRemoveRoot == "cannot Remove() the root directory"
ErrReadOnlySet == "read only filesystem set"

(***************************************************************************)
(* Go string helpers.                                                      *)
(***************************************************************************)
Ord(c) ==
    CASE c = "." -> 46
      [] c = "/" -> 47
      [] c = "a" -> 97
      [] c = "b" -> 98
      [] c = "d" -> 100

RECURSIVE StrLess(_, _)
StrLess(x, y) ==
    IF Len(y) = 0 THEN FALSE
    ELSE IF Len(x) = 0 THEN TRUE
    ELSE IF Ord(Head(x)) # Ord(Head(y)) THEN Ord(Head(x)) < Ord(Head(y))
    ELSE StrLess(Tail(x), Tail(y))

TrimPrefix(s, c) == IF Len(s) > 0 /\ Head(s) = c THEN Tail(s) ELSE s

TrimSuffix(s, c) == IF Len(s) > 0 /\ s[Len(s)] = c THEN SubSeq(s, 1, Len(s) - 1) ELSE s

HasSuffix(s, c) == Len(s) > 0 /\ s[Len(s)] = c

RECURSIVE SplitFrom(_, _, _)
SplitFrom(s, cur, acc) ==
    IF Len(s) = 0 THEN Append(acc, cur)
    ELSE IF Head(s) = "/" THEN SplitFrom(Tail(s), <<>>, Append(acc, cur))
    ELSE SplitFrom(Tail(s), Append(cur, Head(s)), acc)

Split(s) == SplitFrom(s, <<>>, <<>>)

PathJoin(dir, name) ==
    IF Len(name) = 0 THEN dir
    ELSE IF dir = NameDot THEN name
    ELSE dir \o <<"/">> \o name

\* strings.Join(sp, "/").
RECURSIVE Join(_)
Join(sp) ==
    IF Len(sp) = 0 THEN <<>>
    ELSE IF Len(sp) = 1 THEN sp[1]
    ELSE sp[1] \o <<"/">> \o Join(Tail(sp))

\* path.Clean, for paths without a ".." element: empty and "." elements go.
Clean(s) ==
    LET elems == SelectSeq(Split(s), LAMBDA e : e # <<>> /\ e # <<".">>)
    IN  IF Len(s) > 0 /\ Head(s) = "/" THEN <<"/">> \o Join(elems)
        ELSE IF Len(elems) = 0 THEN <<".">>
        ELSE Join(elems)

\* path.Join(a, b).
GoPathJoin(a, b) ==
    IF Len(a) = 0 /\ Len(b) = 0 THEN <<>>
    ELSE IF Len(a) = 0 THEN Clean(b)
    ELSE IF Len(b) = 0 THEN Clean(a)
    ELSE Clean(a \o <<"/">> \o b)

\* path.Base(p), for a path that does not end in a slash.
Base(p) == IF Len(p) = 0 THEN <<".">> ELSE Split(p)[Len(Split(p))]

(***************************************************************************)
(* The node tree: type file.                                               *)
(***************************************************************************)
NewDirNode(name) == [name |-> name, content |-> "", isDir |-> TRUE, objects |-> <<>>]

NewFileNode(name, content) ==
    [name |-> name, content |-> content, isDir |-> FALSE, objects |-> <<>>]

NoFile == [name |-> <<>>, content |-> NoBytes, isDir |-> FALSE, objects |-> <<>>]

RECURSIVE SortSearch(_, _, _, _)
SortSearch(objs, name, i, j) ==
    IF i < j
    THEN LET h == (i + j) \div 2
         IN  IF StrLess(objs[h + 1].name, name)
             THEN SortSearch(objs, name, h + 1, j)
             ELSE SortSearch(objs, name, i, h)
    ELSE i

Search(f, name) ==
    IF ~f.isDir THEN [err |-> ErrNotADirectory, idx |-> 0]
    ELSE IF Len(f.objects) = 0 THEN [err |-> ErrNotExist, idx |-> 0]
    ELSE LET x == SortSearch(f.objects, name, 0, Len(f.objects))
         IN  IF x < Len(f.objects) /\ f.objects[x + 1].name = name
             THEN [err |-> Nil, idx |-> x + 1]
             ELSE [err |-> ErrNotExist, idx |-> 0]

RECURSIVE InsertSorted(_, _)
InsertSorted(objs, n) ==
    IF Len(objs) = 0 THEN <<n>>
    ELSE IF StrLess(n.name, Head(objs).name) THEN <<n>> \o objs
    ELSE <<Head(objs)>> \o InsertSorted(Tail(objs), n)

RECURSIVE SortSlice(_)
SortSlice(objs) ==
    IF Len(objs) = 0 THEN <<>>
    ELSE InsertSorted(SortSlice(SubSeq(objs, 1, Len(objs) - 1)), objs[Len(objs)])

\* createDir whose new node is not marked as a directory.
createDirUnmarked(f, name) ==
    [f EXCEPT !.objects = SortSlice(Append(f.objects, [NewDirNode(name) EXCEPT !.isDir = FALSE]))]

createDir(f, name) == [f EXCEPT !.objects = SortSlice(Append(f.objects, NewDirNode(name)))]

\* addFile that appends the new node and does not sort.
addFileUnsorted(f, nf) == [f EXCEPT !.objects = Append(f.objects, nf)]

addFile(f, nf) == [f EXCEPT !.objects = SortSlice(Append(f.objects, nf))]

(***************************************************************************)
(* simple.FS: the memory filesystem.                                       *)
(***************************************************************************)
\* New that applies the options it is given.
NewApplyingOptions(options) ==
    [root |-> NewDirNode(NameDot), ro |-> FALSE,
     pearson |-> ("WithPearson" \in options), cache |-> <<>>, items |-> 0]

New(options) ==
    [root |-> NewDirNode(NameDot), ro |-> FALSE,
     pearson |-> FALSE, cache |-> <<>>, items |-> 0]

IsRootName(name) == name = NameSlash \/ name = NameEmpty \/ name = NameDot

RECURSIVE pearsonFrom(_, _)
pearsonFrom(bytes, h) ==
    IF Len(bytes) = 0 THEN h
    ELSE pearsonFrom(Tail(bytes), (h * 7 + Ord(Head(bytes))) % 256)

pearson(bytes) == pearsonFrom(bytes, 0)

NoSlot == [set |-> FALSE, f |-> NoFile]

RECURSIVE Walk(_, _, _)
Walk(dir, sp, k) ==
    IF k > Len(sp) THEN [err |-> Nil, file |-> dir]
    ELSE LET r == Search(dir, sp[k])
         IN  IF r.err # Nil THEN [err |-> r.err, file |-> NoFile]
             ELSE Walk(dir.objects[r.idx], sp, k + 1)

MemOpen(s, name0) ==
    IF IsRootName(name0) THEN [err |-> Nil, file |-> s.root]
    ELSE LET name == TrimPrefix(TrimPrefix(name0, "."), "/")
             sp == Split(name)
         IN  IF s.pearson /\ s.ro
             THEN LET i == pearson(name) % (Len(s.cache) + 1)
                  IN  IF i >= Len(s.cache) THEN [err |-> ErrNotExist, file |-> NoFile]
                      ELSE IF ~s.cache[i + 1].set THEN [err |-> Panic, file |-> NoFile]
                      ELSE [err |-> Nil, file |-> s.cache[i + 1].f]
             ELSE Walk(s.root, sp, 1)

RECURSIVE findDirWalk(_, _, _)
findDirWalk(dir, sp, k) ==
    IF k > Len(sp) THEN [err |-> Nil, file |-> dir]
    ELSE LET r == Search(dir, sp[k])
         IN  IF r.err # Nil THEN [err |-> ErrNotExist, file |-> NoFile]
             ELSE IF ~dir.objects[r.idx].isDir THEN [err |-> ErrInvalid, file |-> NoFile]
             ELSE findDirWalk(dir.objects[r.idx], sp, k + 1)

findDir(s, name0) ==
    IF IsRootName(name0) THEN [err |-> Nil, file |-> s.root]
    ELSE LET name == TrimSuffix(TrimPrefix(TrimPrefix(name0, "."), "/"), "/")
         IN  findDirWalk(s.root, Split(name), 1)

MemReadFile(s, name) ==
    LET o == MemOpen(s, name)
    IN  IF o.err # Nil THEN [err |-> o.err, b |-> NoBytes]
        ELSE IF o.file.isDir THEN [err |-> ErrReadDir, b |-> NoBytes]
        ELSE [err |-> Nil, b |-> o.file.content]

NoInfo == [name |-> <<>>, size |-> 0, isDir |-> FALSE]

fileStat(f) == [name |-> f.name, size |-> Len(f.content), isDir |-> f.isDir]

MemStat(s, name) ==
    LET o == MemOpen(s, name)
    IN  IF o.err = Nil THEN [err |-> Nil, fi |-> fileStat(o.file)]
        ELSE LET d == findDir(s, name)
             IN  IF d.err # Nil THEN [err |-> ErrNotExist, fi |-> NoInfo]
                 ELSE [err |-> Nil, fi |-> fileStat(d.file)]

\* WriteFile that replaces the content of a file that exists.
RECURSIVE WriteAtOverwriting(_, _, _, _)
WriteAtOverwriting(dir, sp, i, content) ==
    LET r == Search(dir, sp[i])
    IN  IF i = Len(sp)
        THEN IF r.err = Nil
             THEN [err |-> Nil,
                   node |-> [dir EXCEPT !.objects[r.idx] = NewFileNode(sp[i], content)]]
             ELSE [err |-> Nil, node |-> addFile(dir, NewFileNode(sp[i], content))]
        ELSE IF r.err # Nil
             THEN LET d1 == createDir(dir, sp[i])
                      k == Search(d1, sp[i]).idx
                      sub == WriteAtOverwriting(d1.objects[k], sp, i + 1, content)
                  IN  [err |-> sub.err, node |-> [d1 EXCEPT !.objects[k] = sub.node]]
             ELSE IF ~dir.objects[r.idx].isDir
             THEN [err |-> ErrElemNotDir, node |-> dir]
             ELSE LET sub == WriteAtOverwriting(dir.objects[r.idx], sp, i + 1, content)
                  IN  [err |-> sub.err, node |-> [dir EXCEPT !.objects[r.idx] = sub.node]]

RECURSIVE WriteAt(_, _, _, _)
WriteAt(dir, sp, i, content) ==
    IF i = Len(sp)
    THEN IF Search(dir, sp[i]).err = Nil
         THEN [err |-> ErrExist, node |-> dir]
         ELSE [err |-> Nil, node |-> addFile(dir, NewFileNode(sp[i], content))]
    ELSE LET r == Search(dir, sp[i])
         IN  IF r.err # Nil
             THEN LET d1 == createDir(dir, sp[i])
                      k == Search(d1, sp[i]).idx
                      sub == WriteAt(d1.objects[k], sp, i + 1, content)
                  IN  [err |-> sub.err, node |-> [d1 EXCEPT !.objects[k] = sub.node]]
             ELSE IF ~dir.objects[r.idx].isDir
             THEN [err |-> ErrElemNotDir, node |-> dir]
             ELSE LET sub == WriteAt(dir.objects[r.idx], sp, i + 1, content)
                  IN  [err |-> sub.err, node |-> [dir EXCEPT !.objects[r.idx] = sub.node]]

\* The elements of a name as WriteFile splits it.
Elems0(name0) == Split(TrimPrefix(TrimPrefix(name0, "."), "/"))

MemWriteFileUnlocked(s, name0, content) ==
    IF name0 = NameEmpty THEN [fs |-> s, err |-> Panic]
    ELSE IF HasSuffix(name0, "/") THEN [fs |-> s, err |-> ErrWriteDir]
    ELSE LET name == TrimPrefix(TrimPrefix(name0, "."), "/")
             r == WriteAt(s.root, Split(name), 1, content)
         IN  [fs |-> [s EXCEPT !.root = r.node,
                                !.items = IF r.err = Nil THEN @ + 1 ELSE @],
              err |-> r.err]

\* WriteFile without the read-only check of its first lines.
MemWriteFileIgnoringRO(s, name0, content) == MemWriteFileUnlocked(s, name0, content)

MemWriteFile(s, name0, content) ==
    IF s.ro THEN [fs |-> s, err |-> ErrLocked]
    ELSE MemWriteFileUnlocked(s, name0, content)

(***************************************************************************)
(* simple.FS.OpenFile and the WRFile it returns.  Flags are the numbers of *)
(* package os (linux), tested bit by bit as isFlagSet does.                *)
(***************************************************************************)
O_RDONLY == 0

O_WRONLY == 1

O_CREATE == 64

O_EXCL == 128

O_TRUNC == 512

\* flags & flag for a flag of at most one bit.
BitAnd(flags, flag) ==
    IF flag = 0 THEN 0
    ELSE IF (flags \div flag) % 2 = 1 THEN flag ELSE 0

isFlagSet(flags, flag) == BitAnd(flags, flag) # 0

ErrNonRegular == "FS does not support non-regular mode bits"

ErrInRO == "in RO mode"

ErrOnlySupport == "only support O_RDONLY and O_WRONLY"

ErrWriteToDir == "cannot write to a directory"

ErrTruncExists == "Simple only supports writing when a file exists if O_TRUNC set"

ErrBugReopen == "bug: we just wrote a file and then couldn't open it"

\* What OpenFile returns: a file that reads (kind "file"), a WRFile around f
\* (kind "WRFile"), or nothing.
OpenedNone(s, err) == [fs |-> s, err |-> err, kind |-> "none", f |-> NoFile]

\* file.getCopy: in the model a node is a value, and a value is its own copy.
getCopy(f) == f

\* simple.FS.OpenFile(name, perms, Flags(flags)); regular is perms.IsRegular().
MemOpenFile(s, name, regular, flags) ==
    IF ~regular THEN OpenedNone(s, ErrNonRegular)
    ELSE IF isFlagSet(flags, O_RDONLY)
    THEN LET o == MemOpen(s, name)
         IN  [fs |-> s, err |-> o.err, kind |-> IF o.err = Nil THEN "file" ELSE "none",
              f |-> o.file]
    ELSE IF s.ro THEN OpenedNone(s, ErrInRO)
    ELSE IF ~isFlagSet(flags, O_WRONLY) THEN OpenedNone(s, ErrOnlySupport)
    ELSE LET o == MemOpen(s, name)
         IN  IF o.err = Nil
             THEN IF o.file.isDir THEN OpenedNone(s, ErrWriteToDir)
                  ELSE IF isFlagSet(flags, O_EXCL) THEN OpenedNone(s, ErrExist)
                  ELSE IF isFlagSet(flags, O_TRUNC) THEN OpenedNone(s, ErrTruncExists)
                  ELSE [fs |-> s, err |-> Nil, kind |-> "WRFile", f |-> getCopy(o.file)]
             ELSE IF ~isFlagSet(flags, O_CREATE) THEN OpenedNone(s, ErrNotExist)
             ELSE LET w == MemWriteFile(s, name, "")
                      o2 == MemOpen(w.fs, name)
                  IN  IF w.err # Nil THEN OpenedNone(w.fs, w.err)
                      ELSE IF o2.err # Nil THEN OpenedNone(w.fs, ErrBugReopen)
                      ELSE [fs |-> w.fs, err |-> Nil, kind |-> "WRFile",
                            f |-> getCopy(o2.file)]

\* &WRFile{f: f}: content is nil, f is the copy that Open made of the node.  The
\* name and the flags of the OpenFile call are kept with it for the claims.
NewWRFile(name, flags, f) ==
    [name |-> name, flags |-> flags, f |-> f, content |-> "", writes |-> 0]

\* WRFile.Write: w.content = append(w.content, b...).
WRFileWrite(w, b) == [w EXCEPT !.content = @ \o b, !.writes = @ + 1]

\* WRFile.Close: w.f.content = w.content, on the node the WRFile holds.
WRFileClose(w) == [w EXCEPT !.f.content = w.content]

\* fs.WalkDir(s, ".", fn): the files of the tree with their paths, in walk order.
RECURSIVE WalkStack(_)
WalkStack(todo) ==
    IF todo = <<>> THEN <<>>
    ELSE LET h == Head(todo)
             objs == h.f.objects
         IN  IF ~h.f.isDir THEN <<h>> \o WalkStack(Tail(todo))
             ELSE WalkStack([k \in 1..Len(objs) |->
                                [path |-> PathJoin(h.path, objs[k].name), f |-> objs[k]]]
                            \o Tail(todo))

WalkFiles(d, path) == WalkStack(<<[path |-> path, f |-> d]>>)

RECURSIVE FillSlots(_, _, _)
FillSlots(files, sl, n) ==
    IF Len(files) = 0 THEN [panic |-> FALSE, sl |-> sl]
    ELSE LET i == pearson(Head(files).path) % (n + 1)
         IN  IF i >= Len(sl) THEN [panic |-> TRUE, sl |-> sl]
             ELSE FillSlots(Tail(files), [sl EXCEPT ![i + 1] = [set |-> TRUE, f |-> Head(files).f]], n)

\* RO that builds the slot table whether or not hashed lookup is configured.
MemROAlwaysHashing(s) ==
    LET s1 == [s EXCEPT !.ro = TRUE]
        r == FillSlots(WalkFiles(s1.root, NameDot),
                       [k \in 1..s1.items |-> NoSlot], Len(s1.cache))
    IN  IF r.panic THEN [fs |-> s1, panic |-> TRUE]
        ELSE [fs |-> [s1 EXCEPT !.cache = r.sl], panic |-> FALSE]

MemRO(s) ==
    LET s1 == [s EXCEPT !.ro = TRUE]
    IN  IF ~s.pearson THEN [fs |-> s1, panic |-> FALSE]
        ELSE LET r == FillSlots(WalkFiles(s1.root, NameDot),
                                [k \in 1..s1.items |-> NoSlot], Len(s1.cache))
             IN  IF r.panic THEN [fs |-> s1, panic |-> TRUE]
                 ELSE [fs |-> [s1 EXCEPT !.cache = r.sl], panic |-> FALSE]

\* file.remove: takes the child called name out of the directory f.
fileRemove(f, name, removeAll) ==
    IF Len(f.objects) = 0 THEN [err |-> ErrNotExist, node |-> f]
    ELSE IF ~f.isDir THEN [err |-> ErrNotADirectory, node |-> f]
    ELSE LET x == SortSearch(f.objects, name, 0, Len(f.objects))
         IN  IF ~(x < Len(f.objects) /\ f.objects[x + 1].name = name)
             THEN [err |-> ErrNotExist, node |-> f]
             ELSE IF removeAll /\ ~f.objects[x + 1].isDir
             THEN [err |-> ErrNotADirectory, node |-> f]
             ELSE IF ~removeAll /\ f.objects[x + 1].isDir /\ Len(f.objects[x + 1].objects) > 0
             THEN [err |-> ErrDirNotEmpty, node |-> f]
             ELSE [err |-> Nil,
                   node |-> [f EXCEPT !.objects =
                                SubSeq(f.objects, 1, x) \o SubSeq(f.objects, x + 2, Len(f.objects))]]

\* The loop of FS.remove over the elements of the name.  `node` is parent as the
\* loop leaves it; `done` says the loop ran to its end, and then `left` is the
\* node the variable parent points to after it: the node just taken out of the tree.
RECURSIVE removeLoop(_, _, _, _)
removeLoop(parent, sp, i, removeAll) ==
    LET r == Search(parent, sp[i])
        f == parent.objects[r.idx]
        stop(e, n) == [err |-> e, node |-> n, done |-> FALSE, left |-> NoFile]
    IN  IF r.err # Nil THEN stop(r.err, parent)
        ELSE IF i = Len(sp)
        THEN IF removeAll /\ ~f.isDir THEN stop(ErrInvalid, parent)
             ELSE IF ~removeAll /\ f.isDir THEN stop(ErrInvalid, parent)
             ELSE LET rm == fileRemove(parent, sp[i], removeAll)
                  IN  IF rm.err # Nil THEN stop(rm.err, parent)
                      ELSE IF ~f.isDir THEN stop(ErrInvalid, rm.node)
                      ELSE [err |-> Nil, node |-> rm.node, done |-> TRUE, left |-> f]
        ELSE IF ~f.isDir THEN stop(ErrInvalid, parent)
        ELSE LET sub == removeLoop(f, sp, i + 1, removeAll)
             IN  [sub EXCEPT !.node = [parent EXCEPT !.objects[r.idx] = sub.node]]

\* FS.remove without the check of its first lines that refuses the root.
removeAnyName(s, name0, removeAll) ==
    LET name == TrimPrefix(TrimPrefix(name0, "."), "/")
    IN  IF s.pearson /\ s.ro THEN [fs |-> s, err |-> ErrReadOnlySet]
        ELSE LET l == removeLoop(s.root, Split(name), 1, removeAll)
             IN  [fs |-> [s EXCEPT !.root = l.node],
                  err |-> IF l.done THEN fileRemove(l.left, name, removeAll).err
                          ELSE l.err]

\* FS.remove.  The error is the one the returned *fs.PathError wraps (the root's
\* refusal is a plain error).
remove(s, name0, removeAll) ==
    IF IsRootName(name0) THEN [fs |-> s, err |-> ErrRemoveRoot]
    ELSE LET name == TrimPrefix(TrimPrefix(name0, "."), "/")
         IN  IF s.pearson /\ s.ro THEN [fs |-> s, err |-> ErrReadOnlySet]
             ELSE LET l == removeLoop(s.root, Split(name), 1, removeAll)
                  IN  [fs |-> [s EXCEPT !.root = l.node],
                       err |-> IF l.done THEN fileRemove(l.left, name, removeAll).err
                               ELSE l.err]

\* Remove that removes as RemoveAll does.
MemRemoveRecursive(s, name) == remove(s, name, TRUE)

MemRemove(s, name) == remove(s, name, FALSE)

MemRemoveAll(s, path) == remove(s, path, TRUE)

\* No disk cache was created.
NoDisk == <<>>

\* No composition over an os store was created.
NoComp == <<>>

\* No concurrent callers.
NoProcs == <<>>

\* No handle is open.
NoHandles == <<>>

(***************************************************************************)
(* cache.FS: the composition engine.  A chain T1..Tn stands for            *)
(* cache.New(T1, cache.New(T2, ... Tn)): level lvl < n is the cache.FS     *)
(* whose cache is tier lvl and whose store is level lvl + 1; level n is    *)
(* the terminal tier itself.  A chain of one tier is the memory            *)
(* filesystem called directly.                                             *)
(***************************************************************************)
Fill(lvl, name, b) == [lvl |-> lvl, name |-> name, b |-> b]

\* ReadFile that starts no fill at its own level.
RECURSIVE ReadFileNoFill(_, _, _)
ReadFileNoFill(ts, lvl, name) ==
    LET c == MemReadFile(ts[lvl], name)
    IN  IF lvl = Len(ts) \/ c.err = Nil
        THEN [err |-> c.err, b |-> c.b, fills |-> {}, calls |-> {lvl}]
        ELSE LET s == ReadFileNoFill(ts, lvl + 1, name)
             IN  [err |-> s.err, b |-> s.b, fills |-> {}, calls |-> {lvl} \cup s.calls]

\* ReadFile whose fill of an inner level is lost when an outer level fills too.
RECURSIVE ReadFileOuterFillOnly(_, _, _)
ReadFileOuterFillOnly(ts, lvl, name) ==
    LET c == MemReadFile(ts[lvl], name)
    IN  IF lvl = Len(ts) \/ c.err = Nil
        THEN [err |-> c.err, b |-> c.b, fills |-> {}, calls |-> {lvl}]
        ELSE LET s == ReadFileOuterFillOnly(ts, lvl + 1, name)
             IN  IF s.err # Nil
                 THEN [err |-> s.err, b |-> NoBytes, fills |-> {}, calls |-> {lvl} \cup s.calls]
                 ELSE [err |-> Nil, b |-> s.b, fills |-> {Fill(lvl, name, s.b)},
                       calls |-> {lvl} \cup s.calls]

\* ReadFile that reports its cache tier's error when the store fails too.
RECURSIVE ReadFileCacheError(_, _, _)
ReadFileCacheError(ts, lvl, name) ==
    LET c == MemReadFile(ts[lvl], name)
    IN  IF lvl = Len(ts) \/ c.err = Nil
        THEN [err |-> c.err, b |-> c.b, fills |-> {}, calls |-> {lvl}]
        ELSE LET s == ReadFileCacheError(ts, lvl + 1, name)
             IN  IF s.err # Nil
                 THEN [err |-> c.err, b |-> NoBytes, fills |-> s.fills,
                       calls |-> {lvl} \cup s.calls]
                 ELSE [err |-> Nil, b |-> s.b,
                       fills |-> s.fills \cup {Fill(lvl, name, s.b)},
                       calls |-> {lvl} \cup s.calls]

RECURSIVE ReadFile(_, _, _)
ReadFile(ts, lvl, name) ==
    LET c == MemReadFile(ts[lvl], name)
    IN  IF lvl = Len(ts) \/ c.err = Nil
        THEN [err |-> c.err, b |-> c.b, fills |-> {}, calls |-> {lvl}]
        ELSE LET s == ReadFile(ts, lvl + 1, name)
             IN  IF s.err # Nil
                 THEN [err |-> s.err, b |-> NoBytes, fills |-> s.fills,
                       calls |-> {lvl} \cup s.calls]
                 ELSE [err |-> Nil, b |-> s.b,
                       fills |-> s.fills \cup {Fill(lvl, name, s.b)},
                       calls |-> {lvl} \cup s.calls]

\* WriteFile that also writes every cache tier on the way down (write-through).
RECURSIVE WriteFileThrough(_, _, _, _)
WriteFileThrough(ts, lvl, name, content) ==
    LET r == MemWriteFile(ts[lvl], name, content)
    IN  IF lvl = Len(ts)
        THEN [ts |-> [ts EXCEPT ![lvl] = r.fs], err |-> r.err]
        ELSE WriteFileThrough([ts EXCEPT ![lvl] = r.fs], lvl + 1, name, content)

RECURSIVE WriteFile(_, _, _, _)
WriteFile(ts, lvl, name, content) ==
    IF lvl = Len(ts)
    THEN LET r == MemWriteFile(ts[lvl], name, content)
         IN  [ts |-> [ts EXCEPT ![lvl] = r.fs], err |-> r.err]
    ELSE WriteFile(ts, lvl + 1, name, content)

RECURSIVE Open(_, _, _)
Open(ts, lvl, name) ==
    LET c == MemOpen(ts[lvl], name)
    IN  IF lvl = Len(ts) \/ c.err = Nil
        THEN [err |-> c.err, file |-> c.file, calls |-> {lvl}, from |-> lvl]
        ELSE LET s == Open(ts, lvl + 1, name)
             IN  [s EXCEPT !.calls = {lvl} \cup @]

\* Stat that answers from the cache tier alone.
StatCacheOnly(ts, lvl, name) ==
    LET c == MemStat(ts[lvl], name)
    IN  [err |-> c.err, fi |-> c.fi, calls |-> {lvl}]

RECURSIVE Stat(_, _, _)
Stat(ts, lvl, name) ==
    LET c == MemStat(ts[lvl], name)
    IN  IF lvl = Len(ts) \/ c.err = Nil
        THEN [err |-> c.err, fi |-> c.fi, calls |-> {lvl}]
        ELSE LET s == Stat(ts, lvl + 1, name)
             IN  [s EXCEPT !.calls = {lvl} \cup @]

(***************************************************************************)
(* Steps.  Each records itself in `last`, with the tiers and the started    *)
(* fills as they were before it (`pre`, `pend`).                           *)
(***************************************************************************)
NoCall ==
    [op |-> "init", lvl |-> 0, name |-> <<>>, content |-> NoBytes, err |-> Nil,
     b |-> NoBytes, calls |-> {}, fills |-> {}, file |-> NoFile, fi |-> NoInfo,
     pre |-> <<>>, pend |-> EmptyBag, dpre |-> <<>>, cpre |-> <<>>, flags |-> {},
     kind |-> "none"]

Call(op, lvl, name, content) ==
    [NoCall EXCEPT !.op = op, !.lvl = lvl, !.name = name, !.content = content,
                   !.pre = tiers, !.pend = pending]

\* ReadFile that starts no fill while the same fill is still started.
DoReadFileOneFill(name) ==
    LET r == ReadFile(tiers, 1, name)
        fresh == {f \in r.fills : ~BagIn(f, pending)}
    IN  /\ BagCardinality(pending) + Cardinality(fresh) <= MaxPending
        /\ pending' = pending (+) SetToBag(fresh)
        /\ last' = [Call("ReadFile", 1, name, NoBytes) EXCEPT
                        !.err = r.err, !.b = r.b, !.calls = r.calls, !.fills = r.fills]
        /\ UNCHANGED <<tiers, opts, dsk, comp, procs, handles>>

\* The caller invokes ReadFile on the outermost level; each missed level starts a fill.
DoReadFile(name) ==
    LET r == ReadFile(tiers, 1, name)
    IN  /\ BagCardinality(pending) + Cardinality(r.fills) <= MaxPending
        /\ pending' = pending (+) SetToBag(r.fills)
        /\ last' = [Call("ReadFile", 1, name, NoBytes) EXCEPT
                        !.err = r.err, !.b = r.b, !.calls = r.calls, !.fills = r.fills]
        /\ UNCHANGED <<tiers, opts, dsk, comp, procs, handles>>

CallReadFile(name) == DoReadFile(name) /\ UNCHANGED seen

\* The same step, also recording the name when the read succeeded.
CallReadFileSeen(name) ==
    /\ DoReadFile(name)
    /\ seen' = IF last'.err = Nil THEN seen \cup {name} ELSE seen

CallWriteFile(name, content) ==
    LET r == WriteFile(tiers, 1, name, content)
    IN  /\ r.err # Panic
        /\ tiers' = r.ts
        /\ last' = [Call("WriteFile", 1, name, content) EXCEPT !.err = r.err]
        /\ UNCHANGED <<opts, pending, seen, dsk, comp, procs, handles>>

\* Open that writes what the store served into the outermost cache tier.
CallOpenFilling(name) ==
    LET r == Open(tiers, 1, name)
        w == MemWriteFile(tiers[1], name, r.file.content)
    IN  /\ last' = [Call("Open", 1, name, NoBytes) EXCEPT
                        !.err = r.err, !.file = r.file, !.calls = r.calls, !.lvl = r.from]
        /\ tiers' = IF r.err = Nil /\ r.from > 1 /\ ~r.file.isDir
                    THEN [tiers EXCEPT ![1] = w.fs] ELSE tiers
        /\ UNCHANGED <<opts, pending, seen, dsk, comp, procs, handles>>

CallOpen(name) ==
    LET r == Open(tiers, 1, name)
    IN  /\ last' = [Call("Open", 1, name, NoBytes) EXCEPT
                        !.err = r.err, !.file = r.file, !.calls = r.calls, !.lvl = r.from]
        /\ UNCHANGED <<tiers, opts, pending, seen, dsk, comp, procs, handles>>

CallStat(name) ==
    LET r == Stat(tiers, 1, name)
    IN  /\ last' = [Call("Stat", 1, name, NoBytes) EXCEPT
                        !.err = r.err, !.fi = r.fi, !.calls = r.calls]
        /\ UNCHANGED <<tiers, opts, pending, seen, dsk, comp, procs, handles>>

\* A fill that stays started when its cache.WriteFile failed, to be run again.
RunFillRetrying(f) ==
    LET r == MemWriteFile(tiers[f.lvl], f.name, f.b)
    IN  /\ BagIn(f, pending)
        /\ tiers' = [tiers EXCEPT ![f.lvl] = r.fs]
        /\ pending' = IF r.err = Nil THEN pending (-) SetToBag({f}) ELSE pending
        /\ last' = [Call("fill", f.lvl, f.name, f.b) EXCEPT !.err = r.err]
        /\ UNCHANGED <<opts, seen, dsk, comp, procs, handles>>

\* The goroutine started by ReadFile: one cache.WriteFile, its error only logged.
RunFill(f) ==
    LET r == MemWriteFile(tiers[f.lvl], f.name, f.b)
    IN  /\ BagIn(f, pending)
        /\ tiers' = [tiers EXCEPT ![f.lvl] = r.fs]
        /\ pending' = pending (-) SetToBag({f})
        /\ last' = [Call("fill", f.lvl, f.name, f.b) EXCEPT !.err = r.err]
        /\ UNCHANGED <<opts, seen, dsk, comp, procs, handles>>

\* RO() called on tier i.
CallRO(i) ==
    LET r == MemRO(tiers[i])
    IN  /\ tiers' = [tiers EXCEPT ![i] = r.fs]
        /\ last' = [Call("RO", i, <<>>, NoBytes) EXCEPT
                        !.err = IF r.panic THEN Panic ELSE Nil]
        /\ UNCHANGED <<opts, pending, seen, dsk, comp, procs, handles>>

\* WriteFile called on tier i itself, not through the composition.
TierWriteFile(i, name, content) ==
    LET r == MemWriteFile(tiers[i], name, content)
    IN  /\ r.err # Panic
        /\ tiers' = [tiers EXCEPT ![i] = r.fs]
        /\ last' = [Call("TierWriteFile", i, name, content) EXCEPT !.err = r.err]
        /\ UNCHANGED <<opts, pending, seen, dsk, comp, procs, handles>>

\* Remove called on the memory filesystem.
CallRemove(name) ==
    LET r == MemRemove(tiers[1], name)
    IN  /\ tiers' = [tiers EXCEPT ![1] = r.fs]
        /\ last' = [Call("Remove", 1, name, NoBytes) EXCEPT !.err = r.err]
        /\ UNCHANGED <<opts, pending, seen, dsk, comp, procs, handles>>

\* RemoveAll called on the memory filesystem.
CallRemoveAll(path) ==
    LET r == MemRemoveAll(tiers[1], path)
    IN  /\ tiers' = [tiers EXCEPT ![1] = r.fs]
        /\ last' = [Call("RemoveAll", 1, path, NoBytes) EXCEPT !.err = r.err]
        /\ UNCHANGED <<opts, pending, seen, dsk, comp, procs, handles>>

(***************************************************************************)
(* disk.FS: the disk cache and its eviction index.  Time is a clock of     *)
(* ticks and a duration a number of ticks.  The ordered structure          *)
(* `expires` (an llrb.LLRB) is the bag of its items: the tree orders them  *)
(* by expireKey.Less and InsertNoReplace keeps equal items side by side.   *)
(* Of the llrb package the model takes the documented behaviour: Delete    *)
(* takes out one item equal to the key (neither Less than the other), and  *)
(* AscendLessThan calls the iterator on every item Less than the pivot.    *)
(***************************************************************************)
\* Names given to the disk cache.
DiskNames == {NameA, NameAB}

\* Values given to WithExpireFiles and to WithExpireCheck.
ExpireFiles == {1, 2}

ExpireChecks == {1, 2}

RECURSIVE nameTransform(_)
nameTransform(name) ==
    IF Len(name) = 0 THEN <<>>
    ELSE (IF Head(name) = "/" THEN <<"_", "s", "l", "a", "s", "h", "_">> ELSE <<Head(name)>>)
         \o nameTransform(Tail(name))

\* The backing file of a name, relative to the cache's location.
diskFilePath(name) == nameTransform(name)

expireKey(t, name) == [time |-> t, name |-> name]

\* expireKey.Less: than.Before(e.Time).
Less(e, than) == than.time < e.time

NoFiles == [x \in {} |-> NoBytes]

NoKeys == [x \in {} |-> expireKey(0, <<>>)]

newIndex(olderThan) == [olderThan |-> olderThan, expires |-> EmptyBag, byName |-> NoKeys]

\* llrb Delete(k): every tree it may leave.
llrbDelete(expires, k) ==
    LET eq == {x \in BagToSet(expires) : ~Less(x, k) /\ ~Less(k, x)}
    IN  IF eq = {} THEN {expires} ELSE {expires (-) SetToBag({x}) : x \in eq}

InsertNoReplace(expires, k) == expires (+) SetToBag({k})

\* llrb AscendLessThan(pivot, fn): the items fn is called on.
AscendLessThan(expires, pivot) ==
    [x \in {y \in BagToSet(expires) : Less(y, pivot)} |-> expires[x]]

setKey(byName, name, k) ==
    [x \in (DOMAIN byName) \cup {name} |-> IF x = name THEN k ELSE byName[x]]

\* index.addOrUpdate at time now: every index it may leave.
addOrUpdate(i, name, now) ==
    LET k == expireKey(now + i.olderThan, name)
        trees == IF name \in DOMAIN i.byName
                 THEN llrbDelete(i.expires, i.byName[name])
                 ELSE {i.expires}
    IN  {[i EXCEPT !.byName = setKey(i.byName, name, k),
                   !.expires = InsertNoReplace(e, k)] : e \in trees}

\* os.Remove of a backing file; its error is only logged.
osRemove(files, path) == [x \in (DOMAIN files) \ {path} |-> files[x]]

RECURSIVE osRemoveAll(_, _)
osRemoveAll(files, paths) ==
    IF paths = {} THEN files
    ELSE LET q == CHOOSE x \in paths : TRUE
         IN  osRemoveAll(osRemove(files, q), paths \ {q})

\* index.expireItem: every (tree, files) it may leave.
expireItem(i, files, ek) ==
    {[index |-> [i EXCEPT !.expires = e], files |-> osRemove(files, diskFilePath(ek.name))] :
        e \in llrbDelete(i.expires, ek)}

\* index.deleteOld at time now, run to its end: expireItem on every item visited.
deleteOld(i, files, now) ==
    LET visited == AscendLessThan(i.expires, expireKey(now - i.olderThan, <<>>))
    IN  [index |-> [i EXCEPT !.expires = i.expires (-) visited],
         files |-> osRemoveAll(files, {diskFilePath(x.name) : x \in BagToSet(visited)})]

\* disk.New with WithExpireFiles(ttl) and WithExpireCheck(check); expireLoop is
\* started and waits on time.After(checkTime).  closeCh is never made.
DiskNew(ttl, check) ==
    [now |-> 0, files |-> NoFiles, index |-> newIndex(ttl), checkTime |-> check,
     closeCh |-> "nil", loop |-> "running", wake |-> check, exited |-> FALSE,
     closeCalled |-> FALSE, swept |-> FALSE, orig |-> NoKeys,
     lock |-> "free", tpc |-> "idle", tname |-> <<>>, spc |-> "idle", visit |-> EmptyBag]

DiskOpen(d, name) ==
    IF diskFilePath(name) \in DOMAIN d.files
    THEN [err |-> Nil, b |-> d.files[diskFilePath(name)]]
    ELSE [err |-> ErrNotExist, b |-> NoBytes]

DiskReadFile(d, name) == DiskOpen(d, name)

DiskStat(d, name) ==
    IF diskFilePath(name) \in DOMAIN d.files THEN Nil ELSE ErrNotExist

\* The key a touch replaces, kept for the claims: the name's expiry before the touch.
origAfter(d, name) ==
    IF name \in DOMAIN d.index.byName
    THEN setKey(d.orig, name, d.index.byName[name])
    ELSE d.orig

DiskCall(op, name, content) == [Call(op, 1, name, content) EXCEPT !.dpre = dsk]

\* The clock advances by one tick.
DiskTick ==
    /\ ~dsk.exited /\ dsk.now < MaxTime
    /\ dsk' = [dsk EXCEPT !.now = @ + 1]
    /\ last' = DiskCall("Tick", <<>>, NoBytes)
    /\ UNCHANGED <<tiers, opts, pending, seen, comp, procs, handles>>

\* disk.FS.WriteFile: os.WriteFile, then index.addOrUpdate.
DiskWriteFile(name, content) ==
    /\ ~dsk.exited
    /\ \E i \in addOrUpdate(dsk.index, name, dsk.now) :
          dsk' = [dsk EXCEPT
                     !.files = [x \in (DOMAIN @) \cup {diskFilePath(name)} |->
                                   IF x = diskFilePath(name) THEN content ELSE @[x]],
                     !.index = i,
                     !.orig = origAfter(dsk, name)]
    /\ last' = DiskCall("WriteFile", name, content)
    /\ UNCHANGED <<tiers, opts, pending, seen, comp, procs, handles>>

\* disk.FS.OpenFile with the default flags (O_RDONLY): addOrUpdate when the file opens.
DiskOpenFile(name) ==
    /\ ~dsk.exited
    /\ IF DiskOpen(dsk, name).err # Nil
       THEN dsk' = dsk
       ELSE \E i \in addOrUpdate(dsk.index, name, dsk.now) :
               dsk' = [dsk EXCEPT !.index = i, !.orig = origAfter(dsk, name)]
    /\ last' = [DiskCall("OpenFile", name, NoBytes) EXCEPT !.err = DiskOpen(dsk, name).err]
    /\ UNCHANGED <<tiers, opts, pending, seen, comp, procs, handles>>

\* Flags given to OpenFile with WithFlags; none is the default, os.O_RDONLY.
OpenFlags == {{}, {"O_WRONLY"}, {"O_WRONLY", "O_CREATE"}}

\* os.OpenFile on the backing files: a missing file is made, empty, under O_CREATE.
osOpenFile(files, path, flags) ==
    IF path \in DOMAIN files THEN [err |-> Nil, files |-> files]
    ELSE IF "O_CREATE" \in flags
    THEN [err |-> Nil, files |-> [x \in (DOMAIN files) \cup {path} |->
                                     IF x = path THEN "" ELSE files[x]]]
    ELSE [err |-> ErrNotExist, files |-> files]

\* OpenFile that leaves the index alone.
DiskOpenFileNotTouching(name, flags) ==
    LET o == osOpenFile(dsk.files, diskFilePath(name), flags)
    IN  /\ ~dsk.exited
        /\ dsk' = [dsk EXCEPT !.files = o.files]
        /\ last' = [DiskCall("OpenFile", name, NoBytes) EXCEPT !.err = o.err, !.flags = flags]
        /\ UNCHANGED <<tiers, opts, pending, seen, comp, procs, handles>>

\* disk.FS.OpenFile with WithFlags(flags): addOrUpdate when the file opens.
DiskOpenFileWith(name, flags) ==
    LET o == osOpenFile(dsk.files, diskFilePath(name), flags)
    IN  /\ ~dsk.exited
        /\ IF o.err # Nil
           THEN dsk' = dsk
           ELSE \E i \in addOrUpdate(dsk.index, name, dsk.now) :
                   dsk' = [dsk EXCEPT !.files = o.files, !.index = i,
                                      !.orig = origAfter(dsk, name)]
        /\ last' = [DiskCall("OpenFile", name, NoBytes) EXCEPT !.err = o.err, !.flags = flags]
        /\ UNCHANGED <<tiers, opts, pending, seen, comp, procs, handles>>

\* disk.FS.Open: the backing file is opened; the index is not used.
CallDiskOpen(name) ==
    /\ ~dsk.exited
    /\ last' = [DiskCall("Open", name, NoBytes) EXCEPT !.err = DiskOpen(dsk, name).err]
    /\ UNCHANGED <<tiers, opts, pending, seen, dsk, comp, procs, handles>>

CallDiskReadFile(name) ==
    /\ ~dsk.exited
    /\ last' = [DiskCall("ReadFile", name, NoBytes) EXCEPT
                    !.err = DiskReadFile(dsk, name).err, !.b = DiskReadFile(dsk, name).b]
    /\ UNCHANGED <<tiers, opts, pending, seen, dsk, comp, procs, handles>>

CallDiskStat(name) ==
    /\ ~dsk.exited
    /\ last' = [DiskCall("Stat", name, NoBytes) EXCEPT !.err = DiskStat(dsk, name)]
    /\ UNCHANGED <<tiers, opts, pending, seen, dsk, comp, procs, handles>>

\* One round of expireLoop's select: closeCh is ready (closed) and the loop
\* returns, or the timer started checkTime ago fires and deleteOld runs.
expireLoop ==
    /\ ~dsk.exited /\ dsk.loop = "running"
    /\ IF dsk.closeCh = "closed"
       THEN /\ dsk' = [dsk EXCEPT !.loop = "stopped"]
            /\ last' = DiskCall("LoopReturn", <<>>, NoBytes)
       ELSE /\ dsk.now >= dsk.wake
            /\ LET r == deleteOld(dsk.index, dsk.files, dsk.now)
               IN  dsk' = [dsk EXCEPT !.index = r.index, !.files = r.files,
                                      !.wake = dsk.now + dsk.checkTime, !.swept = TRUE]
            /\ last' = DiskCall("Sweep", <<>>, NoBytes)
    /\ UNCHANGED <<tiers, opts, pending, seen, comp, procs, handles>>

\* disk.FS.Close: close(f.closeCh).  Closing a nil channel panics; the caller
\* recovers and goes on, or the program exits.
DiskClose ==
    /\ ~dsk.exited
    /\ IF dsk.closeCh = "nil"
       THEN /\ \E recovered \in BOOLEAN :
                  dsk' = [dsk EXCEPT !.closeCalled = TRUE, !.exited = ~recovered]
            /\ last' = [DiskCall("Close", <<>>, NoBytes) EXCEPT !.err = Panic]
       ELSE /\ dsk' = [dsk EXCEPT !.closeCalled = TRUE, !.closeCh = "closed"]
            /\ last' = DiskCall("Close", <<>>, NoBytes)
    /\ UNCHANGED <<tiers, opts, pending, seen, comp, procs, handles>>

(***************************************************************************)
(* The same operations step by step: WriteFile's call of addOrUpdate       *)
(* (Lock, Delete, InsertNoReplace, Unlock) beside the sweeper's deleteOld  *)
(* (AscendLessThan, expireItem per item), which takes no lock.             *)
(***************************************************************************)
IdxWriteFile(name, content) ==
    /\ dsk.tpc = "idle"
    /\ dsk' = [dsk EXCEPT
                  !.files = [x \in (DOMAIN @) \cup {diskFilePath(name)} |->
                                IF x = diskFilePath(name) THEN content ELSE @[x]],
                  !.tpc = "lock", !.tname = name]
    /\ last' = DiskCall("WriteFile", name, content)
    /\ UNCHANGED <<tiers, opts, pending, seen, comp, procs, handles>>

IdxLock ==
    /\ dsk.tpc = "lock" /\ dsk.lock = "free"
    /\ dsk' = [dsk EXCEPT !.lock = "addOrUpdate", !.tpc = "delete"]
    /\ last' = DiskCall("Lock", dsk.tname, NoBytes)
    /\ UNCHANGED <<tiers, opts, pending, seen, comp, procs, handles>>

IdxDelete ==
    /\ dsk.tpc = "delete"
    /\ \E e \in (IF dsk.tname \in DOMAIN dsk.index.byName
                 THEN llrbDelete(dsk.index.expires, dsk.index.byName[dsk.tname])
                 ELSE {dsk.index.expires}) :
          dsk' = [dsk EXCEPT !.index.expires = e, !.tpc = "insert"]
    /\ last' = DiskCall("Delete", dsk.tname, NoBytes)
    /\ UNCHANGED <<tiers, opts, pending, seen, comp, procs, handles>>

IdxInsert ==
    /\ dsk.tpc = "insert"
    /\ LET k == expireKey(dsk.now + dsk.index.olderThan, dsk.tname)
       IN  dsk' = [dsk EXCEPT !.index.byName = setKey(@, dsk.tname, k),
                              !.index.expires = InsertNoReplace(@, k),
                              !.tpc = "unlock"]
    /\ last' = DiskCall("InsertNoReplace", dsk.tname, NoBytes)
    /\ UNCHANGED <<tiers, opts, pending, seen, comp, procs, handles>>

IdxUnlock ==
    /\ dsk.tpc = "unlock"
    /\ dsk' = [dsk EXCEPT !.lock = "free", !.tpc = "idle"]
    /\ last' = DiskCall("Unlock", dsk.tname, NoBytes)
    /\ UNCHANGED <<tiers, opts, pending, seen, comp, procs, handles>>

\* The timer fires and deleteOld starts its traversal; it takes no lock.
IdxSweepBegin ==
    /\ dsk.spc = "idle" /\ dsk.now >= dsk.wake
    /\ dsk' = [dsk EXCEPT
                  !.spc = "visiting",
                  !.visit = AscendLessThan(dsk.index.expires,
                                           expireKey(dsk.now - dsk.index.olderThan, <<>>))]
    /\ last' = DiskCall("deleteOld", <<>>, NoBytes)
    /\ UNCHANGED <<tiers, opts, pending, seen, comp, procs, handles>>

\* expireItem on the next item of the traversal.
IdxExpireItem ==
    /\ dsk.spc = "visiting"
    /\ \E ek \in BagToSet(dsk.visit) :
          /\ \A y \in BagToSet(dsk.visit) : ~Less(y, ek)
          /\ \E r \in expireItem(dsk.index, dsk.files, ek) :
                dsk' = [dsk EXCEPT !.index = r.index, !.files = r.files,
                                   !.visit = @ (-) SetToBag({ek})]
          /\ last' = DiskCall("expireItem", ek.name, NoBytes)
    /\ UNCHANGED <<tiers, opts, pending, seen, comp, procs, handles>>

\* The traversal is over; expireLoop waits on a new time.After(checkTime).
IdxSweepEnd ==
    /\ dsk.spc = "visiting" /\ dsk.visit = EmptyBag
    /\ dsk' = [dsk EXCEPT !.spc = "idle", !.wake = dsk.now + dsk.checkTime, !.swept = TRUE]
    /\ last' = DiskCall("Sweep", <<>>, NoBytes)
    /\ UNCHANGED <<tiers, opts, pending, seen, comp, procs, handles>>

(***************************************************************************)
(* A composition of three kinds of tier, as the package comment of         *)
(* io/cache builds it: cache.New(memFS, cache.New(diskFS, osFS)).  Leaf 1  *)
(* is the memory filesystem tiers[1], leaf 2 the disk cache dsk, leaf 3    *)
(* the os.FS store; cache.FS 1 is the outer composition (cache: leaf 1,    *)
(* store: cache.FS 2) and cache.FS 2 the inner one (cache: leaf 2, store:  *)
(* leaf 3).  The store's directories exist (Mkdir was called for them).    *)
(***************************************************************************)
\* The names fmt.Sprintf("%T", s) gives the leaves.
TypeOf == <<"*simple.FS", "*disk.FS", "*os.FS">>

\* The name it gives a cache.FS.
TypeOfCacheFS == "*cache.FS"

OsReadFile(files, name) ==
    IF name \in DOMAIN files THEN [err |-> Nil, b |-> files[name]]
    ELSE [err |-> ErrNotExist, b |-> NoBytes]

OsWriteFile(files, name, content) ==
    [x \in (DOMAIN files) \cup {name} |-> IF x = name THEN content ELSE files[x]]

\* The composition over a store in which name dir/file was written; inTest says
\* whether the binary is a test binary.
CompNew(inTest, files) == [inTest |-> inTest, store |-> files, filledBy |-> <<"", "">>]

\* recordFill that records the type of the tier it is given, a cache.FS included.
recordFillOwnType(c, lvl, k) ==
    IF ~c.inTest THEN c
    ELSE IF k > lvl /\ k < Len(TypeOf)
    THEN [c EXCEPT !.filledBy[lvl] = TypeOfCacheFS]
    ELSE [c EXCEPT !.filledBy[lvl] = TypeOf[k]]

\* FS.recordFill(s) on cache.FS lvl; s is its cache (k = lvl) or its store
\* (k = lvl + 1), and the store is a *cache.FS unless it is the last leaf.
recordFill(c, lvl, k) ==
    IF ~c.inTest THEN c
    ELSE IF k > lvl /\ k < Len(TypeOf)
    THEN [c EXCEPT !.filledBy[lvl] = c.filledBy[k]]
    ELSE [c EXCEPT !.filledBy[lvl] = TypeOf[k]]

\* What each leaf's ReadFile returns.
LeafReads(ts, d, c, name) ==
    <<MemReadFile(ts[1], name), DiskReadFile(d, name), OsReadFile(c.store, name)>>

\* FS.ReadFile of cache.FS lvl (of the last leaf when lvl is its number), with
\* the fills it starts and the FilledBy fields it leaves.
RECURSIVE ReadFileRecording(_, _, _, _)
ReadFileRecording(reads, c, lvl, name) ==
    IF lvl = Len(reads)
    THEN [err |-> reads[lvl].err, b |-> reads[lvl].b, fills |-> {}, comp |-> c]
    ELSE IF reads[lvl].err = Nil
    THEN [err |-> Nil, b |-> reads[lvl].b, fills |-> {}, comp |-> recordFill(c, lvl, lvl)]
    ELSE LET s == ReadFileRecording(reads, c, lvl + 1, name)
         IN  IF s.err # Nil
             THEN [err |-> s.err, b |-> NoBytes, fills |-> s.fills, comp |-> s.comp]
             ELSE [err |-> Nil, b |-> s.b,
                   fills |-> s.fills \cup {Fill(lvl, name, s.b)},
                   comp |-> recordFill(s.comp, lvl, lvl + 1)]

CompCall(op, name, content) ==
    [Call(op, 1, name, content) EXCEPT !.dpre = dsk, !.cpre = comp]

\* ReadFile on the outer composition.
CompReadFile(name) ==
    LET r == ReadFileRecording(LeafReads(tiers, dsk, comp, name), comp, 1, name)
    IN  /\ BagCardinality(pending) + Cardinality(r.fills) <= MaxPending
        /\ pending' = pending (+) SetToBag(r.fills)
        /\ comp' = r.comp
        /\ last' = [CompCall("ReadFile", name, NoBytes) EXCEPT
                        !.err = r.err, !.b = r.b, !.fills = r.fills]
        /\ UNCHANGED <<tiers, opts, seen, dsk, procs, handles>>

\* WriteFile on the outer composition: the os store's WriteFile.
CompWriteFile(name, content) ==
    /\ comp' = [comp EXCEPT !.store = OsWriteFile(@, name, content)]
    /\ last' = CompCall("WriteFile", name, content)
    /\ UNCHANGED <<tiers, opts, pending, seen, dsk, procs, handles>>

\* The goroutine ReadFile started for cache.FS f.lvl: WriteFile on its cache, the
\* memory filesystem (f.lvl = 1) or the disk cache (f.lvl = 2).
CompRunFill(f) ==
    /\ BagIn(f, pending)
    /\ pending' = pending (-) SetToBag({f})
    /\ IF f.lvl = 1
       THEN LET r == MemWriteFile(tiers[1], f.name, f.b)
            IN  /\ tiers' = [tiers EXCEPT ![1] = r.fs]
                /\ dsk' = dsk
                /\ last' = [CompCall("fill", f.name, f.b) EXCEPT !.lvl = 1, !.err = r.err]
       ELSE /\ \E i \in addOrUpdate(dsk.index, f.name, dsk.now) :
                  dsk' = [dsk EXCEPT
                             !.files = [x \in (DOMAIN @) \cup {diskFilePath(f.name)} |->
                                           IF x = diskFilePath(f.name) THEN f.b ELSE @[x]],
                             !.index = i,
                             !.orig = origAfter(dsk, f.name)]
            /\ tiers' = tiers
            /\ last' = [CompCall("fill", f.name, f.b) EXCEPT !.lvl = 2]
    /\ UNCHANGED <<opts, seen, comp, procs, handles>>

\* The memory tier's entry goes away: Remove called on the memory filesystem.
CompRemove(name) ==
    LET r == MemRemove(tiers[1], name)
    IN  /\ tiers' = [tiers EXCEPT ![1] = r.fs]
        /\ last' = [CompCall("Remove", name, NoBytes) EXCEPT !.err = r.err]
        /\ UNCHANGED <<opts, pending, seen, dsk, comp, procs, handles>>

\* The clock of the disk cache advances.
CompTick ==
    /\ dsk.now < MaxTime
    /\ dsk' = [dsk EXCEPT !.now = @ + 1]
    /\ last' = CompCall("Tick", <<>>, NoBytes)
    /\ UNCHANGED <<tiers, opts, pending, seen, comp, procs, handles>>

\* expireLoop's timer fires and deleteOld runs.
CompSweep ==
    /\ dsk.now >= dsk.wake
    /\ LET r == deleteOld(dsk.index, dsk.files, dsk.now)
       IN  dsk' = [dsk EXCEPT !.index = r.index, !.files = r.files,
                              !.wake = dsk.now + dsk.checkTime, !.swept = TRUE]
    /\ last' = CompCall("Sweep", <<>>, NoBytes)
    /\ UNCHANGED <<tiers, opts, pending, seen, comp, procs, handles>>

(***************************************************************************)
(* fs.Merge(into, from, prepend, options...), with memory filesystems as   *)
(* into and from: tiers[1] is into and tiers[2] is from.                   *)
(***************************************************************************)
ErrPrepend == "prepend does not end with '/'"

ErrTransform == "transform error"

\* The FileTransform given with WithTransform: none, or one that rewrites every
\* file, or one that also returns nil for the files called a, or one that also
\* fails on them.
FileTransforms == {"none", "rewrite", "skip", "fail"}

Rewritten(b) == IF b = "c1" THEN "t1" ELSE "t2"

\* The call opt.fileTransform(base, b).
fileTransform(ft, base, b) ==
    IF ft = "skip" /\ base = <<"a">> THEN [b |-> NoBytes, err |-> Nil]
    ELSE IF ft = "fail" /\ base = <<"a">> THEN [b |-> NoBytes, err |-> ErrTransform]
    ELSE [b |-> Rewritten(b), err |-> Nil]

\* Merge's walk function without the skip of a file whose transform returns nil:
\* the nil content is written.
RECURSIVE mergeWalkWritingNil(_, _, _, _, _)
mergeWalkWritingNil(into, from, files, prepend, ft) ==
    IF Len(files) = 0 THEN [fs |-> into, err |-> Nil]
    ELSE LET p == Head(files).path
             rd == MemReadFile(from, p)
             t == IF ft = "none" THEN [b |-> rd.b, err |-> Nil]
                  ELSE fileTransform(ft, Base(p), rd.b)
             w == MemWriteFile(into, GoPathJoin(prepend, p), t.b)
         IN  IF p = <<"/">> \/ p = <<>>
             THEN mergeWalkWritingNil(into, from, Tail(files), prepend, ft)
             ELSE IF rd.err # Nil THEN [fs |-> into, err |-> rd.err]
             ELSE IF t.err # Nil THEN [fs |-> into, err |-> t.err]
             ELSE IF w.err # Nil THEN [fs |-> w.fs, err |-> w.err]
             ELSE mergeWalkWritingNil(w.fs, from, Tail(files), prepend, ft)

\* fs.WalkDir(from, ".", fn) of Merge over the files of the walk that are left;
\* the walk ends at the first error fn returns.
RECURSIVE mergeWalk(_, _, _, _, _)
mergeWalk(into, from, files, prepend, ft) ==
    IF Len(files) = 0 THEN [fs |-> into, err |-> Nil]
    ELSE LET p == Head(files).path
             rd == MemReadFile(from, p)
             t == IF ft = "none" THEN [b |-> rd.b, err |-> Nil]
                  ELSE fileTransform(ft, Base(p), rd.b)
             w == MemWriteFile(into, GoPathJoin(prepend, p), t.b)
         IN  IF p = <<"/">> \/ p = <<>>
             THEN mergeWalk(into, from, Tail(files), prepend, ft)
             ELSE IF rd.err # Nil THEN [fs |-> into, err |-> rd.err]
             ELSE IF t.err # Nil THEN [fs |-> into, err |-> t.err]
             ELSE IF ft # "none" /\ t.b = NoBytes
             THEN mergeWalk(into, from, Tail(files), prepend, ft)
             ELSE IF w.err # Nil THEN [fs |-> w.fs, err |-> w.err]
             ELSE mergeWalk(w.fs, from, Tail(files), prepend, ft)

Merge(into, from, prepend0, ft) ==
    LET p1 == IF prepend0 = <<"/">> THEN <<>> ELSE prepend0
        prepend == IF p1 = <<>> THEN p1 ELSE TrimPrefix(TrimPrefix(p1, "."), "/")
    IN  IF p1 # <<>> /\ ~HasSuffix(p1, "/") THEN [fs |-> into, err |-> ErrPrepend]
        ELSE mergeWalk(into, from, WalkFiles(from.root, <<".">>), prepend, ft)

\* Merge(tiers[1], tiers[2], prepend, WithTransform(ft)) is called.
CallMerge(prepend, ft) ==
    LET r == Merge(tiers[1], tiers[2], prepend, ft)
    IN  /\ r.err # Panic
        /\ tiers' = [tiers EXCEPT ![1] = r.fs]
        /\ last' = [Call("Merge", 1, prepend, ft) EXCEPT !.err = r.err]
        /\ UNCHANGED <<opts, pending, seen, dsk, comp, procs, handles>>

(***************************************************************************)
(* FS.WriteFile step by step, for callers that run concurrently on the     *)
(* memory filesystem tiers[1]: the checks made before writeMu is taken,    *)
(* writeMu.Lock(), the loop over the directories of the name, the Search   *)
(* of the last element, addFile with items++, and the deferred Unlock.     *)
(***************************************************************************)
Writers == 1..3

NoWriter == 0

Idle == [pc |-> "idle", name |-> <<>>, content |-> NoBytes, err |-> Nil]

ProcsNew == [mu |-> NoWriter, w |-> [p \in Writers |-> Idle]]

\* The loop over sp[0 .. len(sp)-2]: missing directories are created.
RECURSIVE makeDirs(_, _, _)
makeDirs(dir, sp, i) ==
    IF i >= Len(sp) THEN [err |-> Nil, node |-> dir]
    ELSE LET r == Search(dir, sp[i])
         IN  IF r.err # Nil
             THEN LET d1 == createDir(dir, sp[i])
                      k == Search(d1, sp[i]).idx
                      sub == makeDirs(d1.objects[k], sp, i + 1)
                  IN  [err |-> sub.err, node |-> [d1 EXCEPT !.objects[k] = sub.node]]
             ELSE IF ~dir.objects[r.idx].isDir
             THEN [err |-> ErrElemNotDir, node |-> dir]
             ELSE LET sub == makeDirs(dir.objects[r.idx], sp, i + 1)
                  IN  [err |-> sub.err, node |-> [dir EXCEPT !.objects[r.idx] = sub.node]]

\* dir.addFile(nf) on the directory the loop ended in.
RECURSIVE addFileAt(_, _, _, _)
addFileAt(dir, sp, i, nf) ==
    IF i >= Len(sp) THEN addFile(dir, nf)
    ELSE LET k == Search(dir, sp[i]).idx
         IN  [dir EXCEPT !.objects[k] = addFileAt(dir.objects[k], sp, i + 1, nf)]

WStep(op, p) == [NoCall EXCEPT !.op = op, !.lvl = p]

\* WriteFile(name, content) is called: the checks of its first lines.
WStart(p, name, content) ==
    LET err == IF tiers[1].ro THEN ErrLocked
               ELSE IF HasSuffix(name, "/") THEN ErrWriteDir
               ELSE Nil
    IN  /\ procs.w[p].pc = "idle"
        /\ name # <<>>
        /\ procs' = [procs EXCEPT !.w[p] = [pc |-> IF err = Nil THEN "lock" ELSE "done",
                                            name |-> name, content |-> content,
                                            err |-> err]]
        /\ last' = WStep("WriteFile", p)
        /\ UNCHANGED <<tiers, opts, pending, seen, dsk, comp, handles>>

\* A Lock that does not wait for the holder.
WLockNotWaiting(p) ==
    /\ procs.w[p].pc = "lock"
    /\ procs' = [procs EXCEPT !.mu = p, !.w[p].pc = "dirs"]
    /\ last' = WStep("Lock", p)
    /\ UNCHANGED <<tiers, opts, pending, seen, dsk, comp, handles>>

\* s.writeMu.Lock().
WLock(p) ==
    /\ procs.w[p].pc = "lock"
    /\ procs.mu = NoWriter
    /\ procs' = [procs EXCEPT !.mu = p, !.w[p].pc = "dirs"]
    /\ last' = WStep("Lock", p)
    /\ UNCHANGED <<tiers, opts, pending, seen, dsk, comp, handles>>

WDirs(p) ==
    LET sp == Elems0(procs.w[p].name)
        r == makeDirs(tiers[1].root, sp, 1)
    IN  /\ procs.w[p].pc = "dirs"
        /\ tiers' = [tiers EXCEPT ![1].root = r.node]
        /\ procs' = [procs EXCEPT !.w[p].pc = IF r.err = Nil THEN "search" ELSE "unlock",
                                  !.w[p].err = r.err]
        /\ last' = WStep("dirs", p)
        /\ UNCHANGED <<opts, pending, seen, dsk, comp, handles>>

\* dir.Search(n) of the last element: fs.ErrExist when it is found.
WSearch(p) ==
    LET sp == Elems0(procs.w[p].name)
        dir == Walk(tiers[1].root, SubSeq(sp, 1, Len(sp) - 1), 1).file
        found == Search(dir, sp[Len(sp)]).err = Nil
    IN  /\ procs.w[p].pc = "search"
        /\ procs' = [procs EXCEPT !.w[p].pc = IF found THEN "unlock" ELSE "add",
                                  !.w[p].err = IF found THEN ErrExist ELSE Nil]
        /\ last' = WStep("Search", p)
        /\ UNCHANGED <<tiers, opts, pending, seen, dsk, comp, handles>>

\* dir.addFile(...) and s.items++.
WAdd(p) ==
    LET sp == Elems0(procs.w[p].name)
        nf == NewFileNode(sp[Len(sp)], procs.w[p].content)
    IN  /\ procs.w[p].pc = "add"
        /\ tiers' = [tiers EXCEPT ![1].root = addFileAt(@, sp, 1, nf), ![1].items = @ + 1]
        /\ procs' = [procs EXCEPT !.w[p].pc = "unlock"]
        /\ last' = WStep("addFile", p)
        /\ UNCHANGED <<opts, pending, seen, dsk, comp, handles>>

\* The deferred s.writeMu.Unlock(); WriteFile returns.
WUnlock(p) ==
    /\ procs.w[p].pc = "unlock"
    /\ procs' = [procs EXCEPT !.mu = NoWriter, !.w[p].pc = "done"]
    /\ last' = WStep("Unlock", p)
    /\ UNCHANGED <<tiers, opts, pending, seen, dsk, comp, handles>>

(***************************************************************************)
(* Specifications.                                                         *)
(***************************************************************************)
Chain(os) == [i \in 1..Len(os) |-> New(os[i])]

InitWith(os) ==
    /\ opts = os
    /\ tiers = Chain(os)
    /\ pending = EmptyBag
    /\ last = NoCall
    /\ seen = {}
    /\ dsk = NoDisk
    /\ comp = NoComp
    /\ procs = NoProcs
    /\ handles = NoHandles

\* Names given to the composition.
CacheNames == {NameA, NameAB}

AllFills == {Fill(lvl, n, c) : lvl \in {1, 2}, n \in CacheNames, c \in Contents}

\* A chain of two or three tiers, whose tiers are also written and frozen directly.
Init == \E os \in {<<{}, {}>>, <<{}, {}, {}>>} : InitWith(os)

Next ==
    \/ \E n \in CacheNames : CallReadFile(n)
    \/ \E n \in CacheNames, c \in Contents : CallWriteFile(n, c)
    \/ \E n \in CacheNames : CallOpen(n)
    \/ \E f \in AllFills : RunFill(f)
    \/ \E i \in 1..Len(tiers) : i < Len(tiers) /\ CallRO(i)
    \/ \E i \in 1..Len(tiers), n \in CacheNames, c \in Contents : TierWriteFile(i, n, c)

Spec == Init /\ [][Next]_vars

\* A fresh chain driven only through the operations of the composition.
NextOps ==
    \/ \E n \in CacheNames : CallReadFile(n)
    \/ \E n \in CacheNames, c \in Contents : CallWriteFile(n, c)
    \/ \E n \in CacheNames : CallOpen(n)
    \/ \E n \in CacheNames : CallStat(n)
    \/ \E f \in AllFills : RunFill(f)

SpecOps == Init /\ [][NextOps]_vars

\* A fresh chain driven only through the composition, every started fill running.
NextFill ==
    \/ \E n \in CacheNames : CallReadFileSeen(n)
    \/ \E n \in CacheNames, c \in Contents : CallWriteFile(n, c)
    \/ \E f \in AllFills : RunFill(f)

\* The Go scheduler runs every started goroutine; the model asks less: while
\* some fill is started, some fill eventually runs.  The steps that take a
\* started fill out of `pending` are exactly the RunFill steps.
FillLeaves == \E f \in BagToSet(pending) : pending' = pending (-) SetToBag({f})

FillsRun == WF_pending(FillLeaves)

SpecFill == Init /\ [][NextFill]_vars /\ FillsRun

\* Handles open at once, and Write calls on one handle.
MaxHandles == 1

MaxWrites == 1

\* Files created in one run of the filesystem with handles.
MaxCreates == 2

RemoveAt(seq, h) == SubSeq(seq, 1, h - 1) \o SubSeq(seq, h + 1, Len(seq))

\* OpenFile on the one memory filesystem; a WRFile it returns stays with the caller.
CallOpenFile(name, regular, flags) ==
    \E r \in {MemOpenFile(tiers[1], name, regular, flags)} :
        /\ r.err # Panic
        /\ r.kind = "WRFile" => Len(handles) < MaxHandles
        /\ tiers' = [tiers EXCEPT ![1] = r.fs]
        /\ handles' = IF r.kind = "WRFile" THEN Append(handles, NewWRFile(name, flags, r.f))
                      ELSE handles
        /\ last' = [Call("OpenFile", 1, name, NoBytes) EXCEPT
                        !.err = r.err, !.file = r.f, !.flags = flags, !.kind = r.kind]
        /\ UNCHANGED <<opts, pending, seen, dsk, comp, procs>>

\* Write(b) on the handle h.
CallWrite(h, b) ==
    /\ h \in 1..Len(handles)
    /\ handles[h].writes < MaxWrites
    /\ handles' = [handles EXCEPT ![h] = WRFileWrite(@, b)]
    /\ last' = Call("Write", 1, handles[h].name, b)
    /\ UNCHANGED <<tiers, opts, pending, seen, dsk, comp, procs>>

\* Close() on the handle h, which the caller then drops.  The node Close assigns
\* to is the one the WRFile holds; no node of the tree is assigned to.
CallClose(h) ==
    /\ h \in 1..Len(handles)
    /\ handles' = RemoveAt(handles, h)
    /\ last' = [Call("Close", 1, handles[h].name, handles[h].content) EXCEPT
                    !.file = WRFileClose(handles[h]).f, !.flags = handles[h].flags]
    /\ UNCHANGED <<tiers, opts, pending, seen, dsk, comp, procs>>

\* One memory filesystem, created with or without WithPearson().
MemNames == {NameA, NameSlashA, NameAB, NameD, NameDA, NameDSlash, NameDot}

\* Names given to Remove and RemoveAll: those, and the other spellings of the root.
RemoveNames == MemNames \cup {NameSlash, NameEmpty}

InitMem == \E o \in {{}, {"WithPearson"}} : InitWith(<<o>>)

NextMem ==
    \/ \E n \in MemNames : CallReadFile(n)
    \/ \E n \in MemNames, c \in Contents : tiers[1].items < MaxItems /\ CallWriteFile(n, c)
    \/ \E n \in MemNames : CallOpen(n)
    \/ \E n \in MemNames : CallStat(n)
    \/ CallRO(1)
    \/ \E n \in RemoveNames : CallRemove(n)
    \/ \E n \in RemoveNames : CallRemoveAll(n)

SpecMem == InitMem /\ [][NextMem]_vars

\* One memory filesystem with its OpenFile and the handles it returns.
FileNames == {NameA, NameD, NameDA}

\* Flags given to OpenFile with Flags(); O_RDONLY is no option, the default.
FlagSets ==
    {O_RDONLY, O_WRONLY, O_WRONLY + O_CREATE, O_WRONLY + O_CREATE + O_EXCL,
     O_WRONLY + O_TRUNC}

InitMemFiles == \E o \in {{}, {"WithPearson"}} : InitWith(<<o>>)

NextMemFiles ==
    \/ \E n \in FileNames : CallReadFile(n)
    \/ \E n \in FileNames \ {NameD} : tiers[1].items < MaxCreates /\ CallWriteFile(n, "c1")
    \/ \E n \in FileNames, regular \in BOOLEAN, fl \in FlagSets :
          tiers[1].items < MaxCreates /\ CallOpenFile(n, regular, fl)
    \/ \E h \in 1..MaxHandles : CallWrite(h, "c2")
    \/ \E h \in 1..MaxHandles : CallClose(h)
    \/ CallRO(1)
    \/ \E n \in FileNames : CallRemove(n)
    \/ \E n \in FileNames : CallRemoveAll(n)

SpecMemFiles == InitMemFiles /\ [][NextMemFiles]_vars

\* A disk cache with its expireLoop, one caller, and the clock.
InitDisk ==
    /\ opts = <<>>
    /\ tiers = <<>>
    /\ pending = EmptyBag
    /\ last = NoCall
    /\ seen = {}
    /\ comp = NoComp
    /\ procs = NoProcs
    /\ handles = NoHandles
    /\ \E ttl \in ExpireFiles, check \in ExpireChecks : dsk = DiskNew(ttl, check)

NextDisk ==
    \/ DiskTick
    \/ \E n \in DiskNames : DiskWriteFile(n, "c1")
    \/ \E n \in DiskNames : DiskOpenFile(n)
    \/ \E n \in DiskNames : CallDiskReadFile(n)
    \/ \E n \in DiskNames : CallDiskStat(n)
    \/ expireLoop
    \/ DiskClose

SpecDisk == InitDisk /\ [][NextDisk]_vars

\* The disk cache opened in every way it offers, written, and swept.
NextDiskOpens ==
    \/ DiskTick
    \/ \E n \in DiskNames : DiskWriteFile(n, "c1")
    \/ \E n \in DiskNames, fl \in OpenFlags : DiskOpenFileWith(n, fl)
    \/ \E n \in DiskNames : CallDiskOpen(n)
    \/ \E n \in DiskNames : CallDiskReadFile(n)
    \/ expireLoop

SpecDiskOpens == InitDisk /\ [][NextDiskOpens]_vars

\* Names given to the disk cache that its nameTransform sends to one backing file.
NameAUnderB == nameTransform(NameAB)

SameFileNames == {NameAB, NameAUnderB}

\* The disk cache written and read under names with and without '/'.
NextDiskFiles ==
    \/ DiskTick
    \/ \E n \in SameFileNames, c \in Contents : DiskWriteFile(n, c)
    \/ \E n \in SameFileNames : CallDiskReadFile(n)
    \/ expireLoop

SpecDiskFiles == InitDisk /\ [][NextDiskFiles]_vars

\* The index under a caller's WriteFile and the sweeper, step by step.
NextIndex ==
    \/ DiskTick
    \/ \E n \in DiskNames : IdxWriteFile(n, "c1")
    \/ IdxLock
    \/ IdxDelete
    \/ IdxInsert
    \/ IdxUnlock
    \/ IdxSweepBegin
    \/ IdxExpireItem
    \/ IdxSweepEnd

SpecIndex == InitDisk /\ [][NextIndex]_vars

\* The memory / disk / os composition in a test binary, over a store that holds
\* one file; one caller, the fills, the clock and the sweeper.
InitComp ==
    /\ opts = <<{}>>
    /\ tiers = Chain(opts)
    /\ pending = EmptyBag
    /\ last = NoCall
    /\ seen = {}
    /\ procs = NoProcs
    /\ handles = NoHandles
    /\ dsk = DiskNew(1, 1)
    /\ comp = CompNew(TRUE, OsWriteFile(NoFiles, NameAB, "c1"))

\* The name given to the composition: the file the store holds.
CompNames == {NameAB}

CompFills == {Fill(lvl, n, c) : lvl \in {1, 2}, n \in CompNames, c \in Contents}

NextComp ==
    \/ \E n \in CompNames : CompReadFile(n)
    \/ \E n \in CompNames : CompWriteFile(n, "c2")
    \/ \E f \in CompFills : CompRunFill(f)
    \/ \E n \in CompNames : tiers[1].items < MaxItems /\ CompRemove(n)
    \/ CompTick
    \/ CompSweep

SpecComp == InitComp /\ [][NextComp]_vars

\* Two memory filesystems, each written directly, and Merge of the second into
\* the first.
MergeNames == {NameA, NameAB, NameDA}

MergePrepends == {NameEmpty, NameSlash, NameDSlash, NameD}

InitMerge == InitWith(<<{}, {}>>)

NextMerge ==
    \/ \E i \in {1, 2}, n \in MergeNames, c \in Contents : TierWriteFile(i, n, c)
    \/ \E p \in MergePrepends, ft \in FileTransforms : CallMerge(p, ft)

SpecMerge == InitMerge /\ [][NextMerge]_vars

\* RO() called by one more goroutine while the callers write: s.ro = true is
\* assigned without writeMu, and RO returns (no hashed lookup is configured).
WRO ==
    /\ ~tiers[1].ro
    /\ tiers' = [tiers EXCEPT ![1] = MemRO(@).fs]
    /\ last' = WStep("RO", NoWriter)
    /\ UNCHANGED <<opts, pending, seen, dsk, comp, procs, handles>>

\* One unfrozen memory filesystem and three callers, each calling WriteFile once.
WriterNames == {NameA, NameB, NameD, NameDA}

InitWriters ==
    /\ opts = <<{}>>
    /\ tiers = Chain(opts)
    /\ pending = EmptyBag
    /\ last = NoCall
    /\ seen = {}
    /\ dsk = NoDisk
    /\ comp = NoComp
    /\ procs = ProcsNew
    /\ handles = NoHandles

NextWriters ==
    \/ \E p \in Writers, n \in WriterNames, c \in Contents : WStart(p, n, c)
    \/ \E p \in Writers : WLock(p)
    \/ \E p \in Writers : WDirs(p)
    \/ \E p \in Writers : WSearch(p)
    \/ \E p \in Writers : WAdd(p)
    \/ \E p \in Writers : WUnlock(p)

SpecWriters == InitWriters /\ [][NextWriters]_vars

\* The same callers, and RO() called once at any moment.
NextFreeze ==
    \/ \E p \in Writers, n \in WriterNames \ {NameB} : WStart(p, n, "c1")
    \/ \E p \in Writers : WLock(p)
    \/ \E p \in Writers : WDirs(p)
    \/ \E p \in Writers : WSearch(p)
    \/ \E p \in Writers : WAdd(p)
    \/ \E p \in Writers : WUnlock(p)
    \/ WRO

SpecFreeze == InitWriters /\ [][NextFreeze]_vars

(***************************************************************************)
(* Vocabulary of the claims.                                               *)
(***************************************************************************)
\* A name in WriteFile's domain of file names: not the root, no trailing slash.
IsFileName(n) == ~IsRootName(n) /\ ~HasSuffix(n, "/")

Store(ts) == ts[Len(ts)]

Caches(ts) == 1..(Len(ts) - 1)

Holds(s, n, c) == MemReadFile(s, n) = [err |-> Nil, b |-> c]

Min(S) == CHOOSE x \in S : \A y \in S : x <= y

ReadHits(ts, n) == {i \in 1..Len(ts) : MemReadFile(ts[i], n).err = Nil}

OpenHits(ts, n) == {i \in 1..Len(ts) : MemOpen(ts[i], n).err = Nil}

(***************************************************************************)
(* C1 (SpecFill).  On a fresh composition, WriteFile(N, C) succeeds and    *)
(* puts N = C in the store; whenever the store holds N = C, ReadFile(N)    *)
(* returns C (the first read after the write, and every later one); and    *)
(* the fills eventually make the outermost cache tier's ReadFile(N) return *)
(* the store's C for every name N a ReadFile has returned (`seen` only     *)
(* grows, so this is: again and again all of them are held).               *)
(***************************************************************************)
C1_WriteThenRead ==
    /\ (last.op = "WriteFile" /\ last.pre = Chain(opts) /\ IsFileName(last.name))
          => /\ last.err = Nil
             /\ Holds(Store(tiers), last.name, last.content)
    /\ (last.op = "ReadFile" /\ MemReadFile(Store(tiers), last.name).err = Nil)
          => /\ last.err = Nil
             /\ last.b = MemReadFile(Store(tiers), last.name).b

C1_CacheFilled ==
    \A n \in seen : /\ MemReadFile(tiers[1], n).err = Nil
                    /\ MemReadFile(tiers[1], n) = MemReadFile(Store(tiers), n)

C1_ReadAfterWriteAndFill == []C1_WriteThenRead /\ []<>C1_CacheFilled

\* A second ReadFile(N), served by the memory cache that the first one's fill wrote.
C1_Witness ==
    /\ Len(tiers) = 2
    /\ last.op = "ReadFile" /\ last.err = Nil /\ last.calls = {1}
    /\ last.name \in seen
    /\ Holds(tiers[2], last.name, last.b)

(***************************************************************************)
(* C2 (SpecFill).  In a chain of cache tiers over a store: a ReadFile that *)
(* misses every cache tier returns the store's bytes and starts one fill   *)
(* per cache tier; once no fill is outstanding, every cache tier returns   *)
(* the store's bytes for every name a ReadFile has returned; and a         *)
(* ReadFile of a name the outermost cache tier holds calls no other tier.  *)
(***************************************************************************)
C2_CascadeFill ==
    /\ (last.op = "ReadFile" /\ ReadHits(last.pre, last.name) = {Len(tiers)})
          => /\ last.err = Nil
             /\ last.b = MemReadFile(Store(tiers), last.name).b
             /\ last.calls = 1..Len(tiers)
             /\ last.fills = {Fill(i, last.name, last.b) : i \in Caches(tiers)}
    /\ pending = EmptyBag
          => \A n \in seen : \A i \in Caches(tiers) :
                /\ MemReadFile(tiers[i], n).err = Nil
                /\ MemReadFile(tiers[i], n) = MemReadFile(Store(tiers), n)
    /\ (last.op = "ReadFile" /\ MemReadFile(tiers[1], last.name).err = Nil)
          => /\ last.calls = {1}
             /\ last.b = MemReadFile(tiers[1], last.name).b

\* Three tiers, both fills done, and a further ReadFile served by T1 alone.
C2_Witness ==
    /\ Len(tiers) = 3
    /\ pending = EmptyBag
    /\ last.op = "ReadFile" /\ last.err = Nil /\ last.calls = {1}
    /\ Holds(tiers[2], last.name, last.b)
    /\ Holds(tiers[3], last.name, last.b)

(***************************************************************************)
(* C3 (Spec).  ReadFile on the outermost composition returns the bytes of  *)
(* the first tier, in order T1..Tn, whose ReadFile succeeds; when no tier  *)
(* succeeds it returns the terminal tier's error, whatever the errors of   *)
(* the tiers before it.                                                    *)
(***************************************************************************)
C3_FirstHitOrTerminalError ==
    last.op = "ReadFile" =>
        LET hits == ReadHits(last.pre, last.name)
        IN  IF hits = {}
            THEN /\ last.err = MemReadFile(Store(last.pre), last.name).err
                 /\ last.b = NoBytes
            ELSE /\ last.err = Nil
                 /\ last.b = MemReadFile(last.pre[Min(hits)], last.name).b

\* Every tier of a three-tier chain fails, T1 with another error than T3.
C3_Witness ==
    /\ Len(tiers) = 3
    /\ last.op = "ReadFile" /\ last.err # Nil
    /\ MemReadFile(tiers[1], last.name).err # last.err
    /\ MemReadFile(tiers[1], last.name).err # Nil

(***************************************************************************)
(* C4 (Spec).  A composition WriteFile is the terminal store's WriteFile:  *)
(* it returns that tier's result and leaves every cache tier as it was,    *)
(* whether it succeeds or fails.                                           *)
(***************************************************************************)
C4_WriteFileStoreOnly ==
    last.op = "WriteFile" =>
        LET r == MemWriteFile(Store(last.pre), last.name, last.content)
        IN  /\ last.err = r.err
            /\ Store(tiers) = r.fs
            /\ \A i \in Caches(tiers) : tiers[i] = last.pre[i]
            /\ pending = last.pend

\* A successful write that the outermost cache tier does not hold afterwards.
C4_Witness ==
    /\ last.op = "WriteFile" /\ last.err = Nil
    /\ MemReadFile(tiers[1], last.name).err # Nil
    /\ Holds(Store(tiers), last.name, last.content)

(***************************************************************************)
(* C5 (Spec).  A ReadFile that misses the cache and is served by the store *)
(* returns the store's bytes without error and starts exactly one fill for *)
(* each cache tier that missed, also when that cache tier is frozen or     *)
(* already holds the name; a fill runs once: whether its cache.WriteFile   *)
(* succeeds or fails it is gone afterwards, and a failed one changes no    *)
(* tier.                                                                   *)
(***************************************************************************)
C5_FillFailureDropped ==
    /\ (last.op = "ReadFile" /\ last.err = Nil)
          => LET hit == Min(ReadHits(last.pre, last.name))
             IN  /\ last.b = MemReadFile(last.pre[hit], last.name).b
                 /\ last.fills = {Fill(i, last.name, last.b) : i \in 1..(hit - 1)}
                 /\ pending = last.pend (+) SetToBag(last.fills)
                 /\ tiers = last.pre
    /\ last.op = "fill"
          => LET f == Fill(last.lvl, last.name, last.content)
             IN  /\ BagIn(f, last.pend)
                 /\ pending = last.pend (-) SetToBag({f})
                 /\ BagCardinality(pending) = BagCardinality(last.pend) - 1
                 /\ last.err # Nil => tiers = last.pre

\* A fill has just failed on a frozen cache tier.
C5_Witness ==
    /\ last.op = "fill" /\ last.err = ErrLocked
    /\ tiers[last.lvl].ro
    /\ Holds(Store(tiers), last.name, last.content)

(***************************************************************************)
(* C6 (Spec).  Open on a composition returns the handle of the first tier  *)
(* whose Open succeeds (the cache tier's when it has the name), otherwise  *)
(* the terminal tier's error; it changes no tier and starts no fill.       *)
(***************************************************************************)
C6_OpenNeverFills ==
    last.op = "Open" =>
        LET hits == OpenHits(last.pre, last.name)
        IN  /\ tiers = last.pre
            /\ pending = last.pend
            /\ IF hits = {}
               THEN /\ last.err = MemOpen(Store(last.pre), last.name).err
                    /\ last.file = NoFile
               ELSE /\ last.err = Nil
                    /\ last.file = MemOpen(last.pre[Min(hits)], last.name).file

\* An Open served by the store; the cache tiers still miss the name afterwards.
C6_Witness ==
    /\ last.op = "Open" /\ last.err = Nil
    /\ last.lvl = Len(tiers)
    /\ \A i \in Caches(tiers) : MemOpen(tiers[i], last.name).err # Nil
    /\ ~last.file.isDir

C8_NoWriteAfterRO ==
    /\ last.op = "RO" => tiers[1].ro
    /\ (last.op # "init" /\ last.pre[1].ro) => tiers[1].ro
    /\ (last.op = "WriteFile" /\ last.pre[1].ro)
          => /\ last.err # Nil
             /\ tiers = last.pre

\* A write of a name the frozen filesystem does not hold has been refused.
C8_Witness ==
    /\ last.op = "WriteFile" /\ last.pre[1].ro
    /\ IsFileName(last.name)
    /\ MemOpen(tiers[1], last.name).err = ErrNotExist
    /\ tiers[1].items > 0

(***************************************************************************)
(* C9 (SpecMem).  RO() on a filesystem that is already read-only, created  *)
(* with or without WithPearson(), does not fail, and every ReadFile and    *)
(* Stat returns afterwards what it returned before.                        *)
(***************************************************************************)
C9_SecondROIdempotent ==
    (last.op = "RO" /\ last.pre[1].ro)
        => /\ last.err = Nil
           /\ \A n \in MemNames :
                 /\ MemReadFile(tiers[1], n) = MemReadFile(last.pre[1], n)
                 /\ MemStat(tiers[1], n) = MemStat(last.pre[1], n)

\* A second RO() on a filesystem created with WithPearson() that holds two files.
C9_Witness ==
    /\ last.op = "RO" /\ last.pre[1].ro
    /\ "WithPearson" \in opts[1]
    /\ tiers[1].items >= 2

(***************************************************************************)
(* C10 (SpecMem).  For a filesystem created with WithPearson(): RO()       *)
(* changes what no ReadFile of a file name returns, and in the frozen      *)
(* filesystem every file of the tree (every file written before the        *)
(* freeze) is read back with its content.                                  *)
(***************************************************************************)
\* What the node tree holds at a name: the lookup of the unfrozen filesystem.
TreeReadFile(s, n) == MemReadFile([s EXCEPT !.ro = FALSE], n)

C10_FrozenReadsBack ==
    "WithPearson" \in opts[1] =>
        /\ last.op = "RO"
              => \A n \in MemNames :
                    (IsFileName(n) /\ MemReadFile(last.pre[1], n).err = Nil)
                        => MemReadFile(tiers[1], n) = MemReadFile(last.pre[1], n)
        /\ tiers[1].ro
              => \A n \in MemNames :
                    (IsFileName(n) /\ TreeReadFile(tiers[1], n).err = Nil)
                        => MemReadFile(tiers[1], n) = TreeReadFile(tiers[1], n)
        /\ (last.op = "ReadFile" /\ tiers[1].ro /\ IsFileName(last.name)
                /\ TreeReadFile(tiers[1], last.name).err = Nil)
              => /\ last.err = Nil
                 /\ last.b = TreeReadFile(tiers[1], last.name).b

\* A ReadFile of one of two files, after the freeze, on a WithPearson() filesystem.
C10_Witness ==
    /\ "WithPearson" \in opts[1]
    /\ tiers[1].ro /\ tiers[1].items >= 2
    /\ last.op = "ReadFile" /\ last.err = Nil /\ last.b \in Contents

(***************************************************************************)
(* Vocabulary of the claims about paths.                                   *)
(***************************************************************************)
\* The elements of a name, as Open, WriteFile and remove split it.
Elems(n) == Split(TrimPrefix(TrimPrefix(n, "."), "/"))

RECURSIVE JoinElems(_)
JoinElems(sp) ==
    IF Len(sp) = 1 THEN sp[1]
    ELSE JoinElems(SubSeq(sp, 1, Len(sp) - 1)) \o <<"/">> \o sp[Len(sp)]

\* The proper ancestor directories of a name.
Ancestors(n) == {JoinElems(SubSeq(Elems(n), 1, k)) : k \in 1..(Len(Elems(n)) - 1)}

\* n is the path p or a path beneath it.
Under(n, p) ==
    /\ Len(Elems(p)) <= Len(Elems(n))
    /\ SubSeq(Elems(n), 1, Len(Elems(p))) = Elems(p)

StatsAsDir(s, a) == MemStat(s, a).err = Nil /\ MemStat(s, a).fi.isDir

(***************************************************************************)
(* C11 (SpecMem).  After a successful WriteFile(p) every proper ancestor   *)
(* directory of p exists: Stat on it succeeds with IsDir() true, right     *)
(* after the write and for as long as the file stays in the tree, on an    *)
(* unfrozen filesystem and on one created with WithPearson() and frozen;   *)
(* no mkdir is among the steps.                                            *)
(***************************************************************************)
C11_AncestorsExist ==
    /\ (last.op = "WriteFile" /\ last.err = Nil)
          => \A a \in Ancestors(last.name) : StatsAsDir(tiers[1], a)
    /\ \A n \in MemNames :
          (IsFileName(n) /\ TreeReadFile(tiers[1], n).err = Nil)
              => \A a \in Ancestors(n) : StatsAsDir(tiers[1], a)
    /\ (last.op = "Stat"
            /\ \E n \in MemNames : /\ IsFileName(n)
                                   /\ TreeReadFile(tiers[1], n).err = Nil
                                   /\ last.name \in Ancestors(n))
          => last.err = Nil /\ last.fi.isDir

\* Stat of the directory of a written file, on a frozen WithPearson() filesystem.
C11_Witness ==
    /\ "WithPearson" \in opts[1] /\ tiers[1].ro
    /\ last.op = "Stat" /\ last.name = NameD
    /\ last.err = Nil /\ last.fi.isDir
    /\ TreeReadFile(tiers[1], NameDA).err = Nil

(***************************************************************************)
(* C18 (SpecMem).  Remove(name) on an existing file or an existing empty   *)
(* directory returns nil, and afterwards Open and Stat of the name return  *)
(* not-found while every other path reads and stats as before.             *)
(***************************************************************************)
C18_RemoveDetaches ==
    (/\ last.op = "Remove" /\ ~IsRootName(last.name)
     /\ MemOpen(last.pre[1], last.name).err = Nil
     /\ \/ ~MemOpen(last.pre[1], last.name).file.isDir
        \/ Len(MemOpen(last.pre[1], last.name).file.objects) = 0)
        => /\ last.err = Nil
           /\ MemOpen(tiers[1], last.name).err = ErrNotExist
           /\ MemStat(tiers[1], last.name).err = ErrNotExist
           /\ \A n \in MemNames :
                 Elems(n) # Elems(last.name)
                     => /\ MemReadFile(tiers[1], n) = MemReadFile(last.pre[1], n)
                        /\ MemStat(tiers[1], n) = MemStat(last.pre[1], n)

(***************************************************************************)
(* C19 (SpecMem).  RemoveAll(path) on an existing directory returns nil    *)
(* whatever the directory contains, and afterwards neither the directory   *)
(* nor any path beneath it resolves.                                       *)
(***************************************************************************)
C19_RemoveAllSucceeds ==
    (/\ last.op = "RemoveAll" /\ ~IsRootName(last.name)
     /\ MemOpen(last.pre[1], last.name).err = Nil
     /\ MemOpen(last.pre[1], last.name).file.isDir)
        => /\ last.err = Nil
           /\ \A n \in MemNames :
                 Under(n, last.name) => MemOpen(tiers[1], n).err # Nil

(***************************************************************************)
(* C20 (SpecMem).  Remove(name) on a directory that has at least one child *)
(* returns an error and leaves the whole filesystem as it was.             *)
(***************************************************************************)
C20_RemoveNonEmptyFails ==
    (/\ last.op = "Remove"
     /\ MemOpen(last.pre[1], last.name).err = Nil
     /\ MemOpen(last.pre[1], last.name).file.isDir
     /\ Len(MemOpen(last.pre[1], last.name).file.objects) > 0)
        => /\ last.err # Nil
           /\ tiers = last.pre

\* Remove of the directory d, which holds the file d/a, has been refused.
C20_Witness ==
    /\ last.op = "Remove" /\ last.name = NameD
    /\ MemReadFile(last.pre[1], NameDA).err = Nil
    /\ last.err = ErrInvalid
    /\ MemReadFile(tiers[1], NameDA).err = Nil

(***************************************************************************)
(* Vocabulary of the claims about the disk cache.                          *)
(***************************************************************************)
\* The ordered entries the index holds for a name.
EntriesOf(d, n) == {x \in BagToSet(d.index.expires) : x.name = n}

\* The name is indexed, with one ordered entry that carries its current expiry.
Indexed(d, n) ==
    /\ n \in DOMAIN d.index.byName
    /\ d.index.byName[n] \in BagToSet(d.index.expires)

HasFile(d, n) == diskFilePath(n) \in DOMAIN d.files

\* The expiry of a name: the time of its last touch plus the TTL.
Expiry(d, n) == d.index.byName[n].time

(***************************************************************************)
(* C12 (SpecDisk).  No sweep that runs before the expiry t0 + TTL of an    *)
(* entry evicts it: after a sweep at a time s < t0 + TTL, the entry is     *)
(* still indexed, its backing file is there and ReadFile(name) succeeds.   *)
(***************************************************************************)
C12_NotEvictedBeforeExpiry ==
    last.op = "Sweep" =>
        \A n \in DiskNames :
            (/\ Indexed(last.dpre, n) /\ HasFile(last.dpre, n)
             /\ last.dpre.now < Expiry(last.dpre, n))
                => /\ Indexed(dsk, n)
                   /\ HasFile(dsk, n)
                   /\ DiskReadFile(dsk, n).err = Nil

(***************************************************************************)
(* C13 (SpecDisk).  A sweep that runs at a time s >= t0 + TTL, t0 the last *)
(* touch of the name, leaves no ordered entry for the name, no backing     *)
(* file, and Stat(name) fails with not-found.                              *)
(***************************************************************************)
C13_EvictedAtExpiry ==
    last.op = "Sweep" =>
        \A n \in DiskNames :
            (/\ n \in DOMAIN last.dpre.index.byName
             /\ last.dpre.now >= Expiry(last.dpre, n))
                => /\ EntriesOf(dsk, n) = {}
                   /\ ~HasFile(dsk, n)
                   /\ DiskStat(dsk, n) = ErrNotExist

(***************************************************************************)
(* C14 (SpecDisk).  A touch at t1 of a name first touched at t0 < t1 sets  *)
(* its expiry to t1 + TTL, and a sweep that runs at the original boundary  *)
(* t0 + TTL neither evicts the entry nor deletes its backing file.         *)
(***************************************************************************)
C14_TouchResetsExpiry ==
    /\ (last.op = "WriteFile" /\ last.name \in DOMAIN last.dpre.index.byName)
          => Expiry(dsk, last.name) = last.dpre.now + dsk.index.olderThan
    /\ last.op = "Sweep" =>
          \A n \in DOMAIN last.dpre.orig :
              (/\ last.dpre.now = last.dpre.orig[n].time
               /\ last.dpre.orig[n].time < Expiry(last.dpre, n)
               /\ Indexed(last.dpre, n) /\ HasFile(last.dpre, n))
                  => Indexed(dsk, n) /\ HasFile(dsk, n)

(***************************************************************************)
(* C15 (SpecDisk).  After any sequence of touches (no sweep yet) the       *)
(* ordered structure holds at most one entry per name, as many entries as  *)
(* there are names in the index, and each entry carries its name's         *)
(* current expiry.                                                         *)
(***************************************************************************)
C15_OneEntryPerName ==
    ~dsk.swept =>
        /\ \A n \in DiskNames : Cardinality(EntriesOf(dsk, n)) <= 1
        /\ BagCardinality(dsk.index.expires) = Cardinality(DOMAIN dsk.index.byName)
        /\ \A x \in BagToSet(dsk.index.expires) :
              x.name \in DOMAIN dsk.index.byName /\ dsk.index.byName[x.name] = x

(***************************************************************************)
(* C16 (SpecDisk).  Close() returns normally and makes expireLoop return:  *)
(* once Close() has been called the loop is stopped and no sweep runs.     *)
(***************************************************************************)
C16_CloseStopsLoop ==
    /\ last.op = "Close" => last.err = Nil
    /\ dsk.closeCalled => dsk.loop = "stopped"
    /\ ~(dsk.closeCalled /\ last.op = "Sweep")

(***************************************************************************)
(* C17 (SpecIndex).  No step of a sweep (deleteOld, expireItem) happens    *)
(* while addOrUpdate is between its Lock and its Unlock, and addOrUpdate   *)
(* takes no step while a sweep is under way.                               *)
(***************************************************************************)
C17_IndexMutualExclusion ==
    ~(dsk.lock = "addOrUpdate" /\ dsk.spc = "visiting")

(***************************************************************************)
(* C21 (SpecMem).  RemoveAll(path) on a path that does not exist returns   *)
(* nil and leaves the tree as it was.                                      *)
(***************************************************************************)
C21_RemoveAllMissingIsNil ==
    (/\ last.op = "RemoveAll" /\ ~IsRootName(last.name)
     /\ MemOpen(last.pre[1], last.name).err # Nil)
        => /\ last.err = Nil
           /\ tiers = last.pre

(***************************************************************************)
(* C22 (SpecMem).  Remove and RemoveAll of the root, spelled "/", "" or    *)
(* ".", return an error and leave the filesystem as it was, in every       *)
(* state: empty or not, frozen or not.                                     *)
(***************************************************************************)
C22_RootRemovalRejected ==
    (last.op \in {"Remove", "RemoveAll"} /\ IsRootName(last.name))
        => /\ last.err # Nil
           /\ tiers = last.pre

\* RemoveAll("/") has been refused on a filesystem that holds files.
C22_Witness ==
    /\ last.op = "RemoveAll" /\ last.name = NameSlash
    /\ last.err = ErrRemoveRoot
    /\ Len(tiers[1].root.objects) >= 2

(***************************************************************************)
(* C23 (SpecComp).  In a test binary, with ReadFile called sequentially on *)
(* the outer composition: after a ReadFile that returned bytes, the outer  *)
(* FilledBy is the type of the first leaf, in the order memory, disk, os,  *)
(* whose ReadFile succeeded, and the bytes are that leaf's: the os store   *)
(* on a full miss, the memory tier once it holds the name, the disk tier   *)
(* when the memory tier has lost the name, the os store again when both    *)
(* cache tiers have lost it.                                               *)
(***************************************************************************)
\* The leaves whose ReadFile(n) succeeds.
LeafHits(ts, d, c, n) == {i \in 1..3 : LeafReads(ts, d, c, n)[i].err = Nil}

C23_FilledByNamesSupplier ==
    (last.op = "ReadFile" /\ last.err = Nil /\ comp.inTest) =>
        LET reads == LeafReads(last.pre, last.dpre, last.cpre, last.name)
            k == Min(LeafHits(last.pre, last.dpre, last.cpre, last.name))
        IN  /\ last.b = reads[k].b
            /\ comp.filledBy[1] = TypeOf[k]
            /\ reads[1].err = Nil => comp.filledBy[1] = "*simple.FS"
            /\ (reads[1].err # Nil /\ reads[2].err = Nil) => comp.filledBy[1] = "*disk.FS"
            /\ (reads[1].err # Nil /\ reads[2].err # Nil) => comp.filledBy[1] = "*os.FS"

\* The memory tier was filled and has lost the name again; the disk tier served it.
C23_Witness ==
    /\ comp.inTest
    /\ last.op = "ReadFile" /\ last.err = Nil
    /\ tiers[1].items > 0 /\ MemReadFile(tiers[1], last.name).err # Nil
    /\ comp.filledBy = <<"*disk.FS", "*disk.FS">>

(***************************************************************************)
(* C24 (SpecDiskFiles).  For every name, with '/' in it or not: after      *)
(* WriteFile(name, c) the disk cache's ReadFile(name) returns c, also when *)
(* the name was present before; and ReadFile(name) goes on returning what  *)
(* the most recent WriteFile(name, _) wrote until the name's entry is      *)
(* evicted: while no sweep has evicted anything, no step but a WriteFile   *)
(* of the name or the sweep that evicts it changes what ReadFile of a      *)
(* written name returns.                                                   *)
(***************************************************************************)
\* The entries a sweep started in d visits.
Visited(d) == AscendLessThan(d.index.expires, expireKey(d.now - d.index.olderThan, <<>>))

\* A sweep started in d evicts an entry of the name.
Evicts(d, n) == \E x \in DOMAIN Visited(d) : x.name = n

C24_ReadsLastWrite ==
    /\ last.op = "WriteFile"
          => /\ last.err = Nil
             /\ DiskReadFile(dsk, last.name) = [err |-> Nil, b |-> last.content]
    /\ \A n \in SameFileNames :
          (/\ last.op # "init"
           /\ ~last.dpre.swept
           /\ n \in DOMAIN last.dpre.index.byName
           /\ ~(last.op = "WriteFile" /\ last.name = n)
           /\ ~(last.op = "Sweep" /\ Evicts(last.dpre, n)))
              => /\ DiskReadFile(dsk, n).err = Nil
                 /\ DiskReadFile(dsk, n) = DiskReadFile(last.dpre, n)

(***************************************************************************)
(* C25 (SpecMerge).  As claimed: after Merge(into, from, prepend) has      *)
(* returned nil, for every file p of from, into.ReadFile(path.Join(        *)
(* prepend, p)) returns from's content of p, or what the FileTransform     *)
(* returned for p when one is given.                                       *)
(***************************************************************************)
\* What Merge is to write for the file of from at path p: NoBytes is a nil slice.
MergeOutput(from, ft, p) ==
    IF ft = "none" THEN MemReadFile(from, p).b
    ELSE fileTransform(ft, Base(p), MemReadFile(from, p).b).b

FilesOf(s) == {WalkFiles(s.root, <<".">>)[k].path : k \in 1..Len(WalkFiles(s.root, <<".">>))}

C25_MergeCopiesEveryFile ==
    (last.op = "Merge" /\ last.err = Nil) =>
        \A p \in FilesOf(tiers[2]) :
            MemReadFile(tiers[1], GoPathJoin(last.name, p))
                = [err |-> Nil, b |-> MergeOutput(tiers[2], last.content, p)]

(***************************************************************************)
(* C25 as amended (SpecMerge).  After Merge has returned nil, for every    *)
(* file p of from: when no FileTransform is given or the transform         *)
(* returned a non-nil content for p, into.ReadFile(path.Join(prepend, p))  *)
(* returns from's content of p, respectively the transform's output; when  *)
(* the transform returned nil for p, the file is skipped and into reads    *)
(* at that path as it did before the Merge.                                *)
(***************************************************************************)
C25_MergeCopiesUnlessSkipped ==
    (last.op = "Merge" /\ last.err = Nil) =>
        \A p \in FilesOf(tiers[2]) :
            LET out == MergeOutput(tiers[2], last.content, p)
                at == GoPathJoin(last.name, p)
            IN  IF out = NoBytes
                THEN MemReadFile(tiers[1], at) = MemReadFile(last.pre[1], at)
                ELSE MemReadFile(tiers[1], at) = [err |-> Nil, b |-> out]

\* A Merge under d/ with a transform that skips d/a of from and rewrites a/b.
C25_Witness ==
    /\ last.op = "Merge" /\ last.err = Nil
    /\ last.name = NameDSlash /\ last.content = "skip"
    /\ FilesOf(tiers[2]) = {NameAB, NameDA}
    /\ MemReadFile(tiers[1], <<"d", "/", "a", "/", "b">>).b \in {"t1", "t2"}
    /\ MemReadFile(tiers[1], <<"d", "/", "d", "/", "a">>).err = ErrNotExist

(***************************************************************************)
(* C26 (SpecWriters).  WriteFile calls that run concurrently on one        *)
(* unfrozen memory filesystem: no caller searches or inserts while another *)
(* is between its Search and its insert; of the callers that write one     *)
(* new name, exactly one returns nil and the others fs.ErrExist, and the   *)
(* name reads as the content of the one that returned nil; and callers     *)
(* that write distinct names, none a path beneath another, all return nil  *)
(* and all their files are present.                                        *)
(***************************************************************************)
InCriticalSection(p) == procs.w[p].pc \in {"dirs", "search", "add", "unlock"}

Done(p) == procs.w[p].pc = "done"

\* The names of two callers are the same path, or one lies beneath the other.
Related(p, q) ==
    \/ Under(procs.w[p].name, procs.w[q].name)
    \/ Under(procs.w[q].name, procs.w[p].name)

SameName(p, q) == Elems(procs.w[p].name) = Elems(procs.w[q].name)

Ascending(objs) ==
    \A i \in 1..(Len(objs) - 1) : StrLess(objs[i].name, objs[i + 1].name)

RECURSIVE AllAscending(_)
AllAscending(node) ==
    /\ Ascending(node.objects)
    /\ \A k \in 1..Len(node.objects) : AllAscending(node.objects[k])

C27_ChildrenSorted == AllAscending(tiers[1].root)

\* A Remove has taken the middle one of three children out of the root, which
\* also holds a directory with a child.
C27_Witness ==
    /\ last.op = "Remove"
    /\ Len(last.pre[1].root.objects) = 3
    /\ Len(tiers[1].root.objects) = 2
    /\ tiers[1].root.objects[1] = last.pre[1].root.objects[1]
    /\ tiers[1].root.objects[2] = last.pre[1].root.objects[3]
    /\ Len(tiers[1].root.objects[2].objects) > 0

(***************************************************************************)
(* C28 (SpecMem).  Whenever Open or ReadFile of a memory filesystem fails  *)
(* to resolve the name, at whichever element of the path, the error is     *)
(* fs.ErrNotExist; this includes an element before the last one that names *)
(* a file and not a directory.  (A ReadFile whose name resolves, to a      *)
(* directory, fails otherwise and is not a failed resolution.)             *)
(***************************************************************************)
C28_ResolutionFailureIsNotExist ==
    (/\ last.op \in {"Open", "ReadFile"}
     /\ last.err # Nil
     /\ ~(last.op = "ReadFile" /\ last.err = ErrReadDir))
        => last.err = ErrNotExist

(***************************************************************************)
(* C29 (SpecMem).  For a filesystem created with WithPearson(): right      *)
(* after RO() the slot table has as many slots as the tree has files, each *)
(* file sits in the slot whose index is the hash of its full path modulo   *)
(* the size of the table, and the frozen Open of that path, which computes *)
(* the same index again, returns that file.                                *)
(***************************************************************************)
SlotOf(path, size) == (pearson(path) % size) + 1

C29_SlotTableBuilt ==
    ("WithPearson" \in opts[1] /\ last.op = "RO") =>
        LET files == WalkFiles(tiers[1].root, NameDot)
            size == Len(files)
        IN  /\ last.err = Nil
            /\ Len(tiers[1].cache) = size
            /\ \A k \in 1..size :
                  /\ tiers[1].cache[SlotOf(files[k].path, size)]
                        = [set |-> TRUE, f |-> files[k].f]
                  /\ MemOpen(tiers[1], files[k].path)
                        = [err |-> Nil, file |-> files[k].f]

(***************************************************************************)
(* C30 (SpecDiskOpens).  As claimed: every successful Open, ReadFile and   *)
(* OpenFile (read-only or for writing) and every successful WriteFile of   *)
(* the disk cache sets the expiry of the name to now + TTL.                *)
(***************************************************************************)
C30_EveryOpenRefreshes ==
    (last.op \in {"Open", "ReadFile", "OpenFile", "WriteFile"} /\ last.err = Nil)
        => /\ last.name \in DOMAIN dsk.index.byName
           /\ Expiry(dsk, last.name) = last.dpre.now + dsk.index.olderThan

(***************************************************************************)
(* C30 as the code has it: every successful OpenFile, whatever its flags,  *)
(* and every successful WriteFile sets the expiry of the name to           *)
(* now + TTL; Open and ReadFile leave the index as it was.                 *)
(***************************************************************************)
C30_OpenFileAndWriteRefresh ==
    /\ (last.op \in {"OpenFile", "WriteFile"} /\ last.err = Nil)
          => /\ last.name \in DOMAIN dsk.index.byName
             /\ Expiry(dsk, last.name) = last.dpre.now + dsk.index.olderThan
    /\ last.op \in {"Open", "ReadFile"} => dsk.index = last.dpre.index

\* A read-only OpenFile has moved the expiry of a name that had an earlier one.
C30_Witness ==
    /\ last.op = "OpenFile" /\ last.err = Nil /\ last.flags = {}
    /\ last.name \in DOMAIN last.dpre.index.byName
    /\ Expiry(last.dpre, last.name) < Expiry(dsk, last.name)

(***************************************************************************)
(* C31 (SpecMemFiles).  OpenFile of a memory filesystem, called with       *)
(* regular mode bits and no Flags option, returns what Open(name) returns, *)
(* file or error, for every name, on an unfrozen and on a frozen           *)
(* filesystem, and changes nothing.                                        *)
(***************************************************************************)
C31_DefaultOpenFileIsOpen ==
    (last.op = "OpenFile" /\ last.flags = O_RDONLY /\ last.err # ErrNonRegular)
        => /\ last.err = MemOpen(last.pre[1], last.name).err
           /\ last.file = MemOpen(last.pre[1], last.name).file
           /\ tiers = last.pre

(***************************************************************************)
(* C32 (SpecOps).  Stat on a composition returns what the cache tier's     *)
(* Stat returns when that succeeds, and otherwise what the store's Stat    *)
(* returns, result or error, unchanged (the store of a chain being the     *)
(* composition of the tiers below); it changes no tier and starts no fill. *)
(***************************************************************************)
\* The tier that answers: the first whose Stat succeeds, the innermost if none does.
Answering(ts, name) ==
    LET ok == {i \in 1..Len(ts) : MemStat(ts[i], name).err = Nil}
    IN  IF ok = {} THEN Len(ts) ELSE CHOOSE i \in ok : \A j \in ok : i <= j

C32_StatCacheThenStore ==
    last.op = "Stat" =>
        LET a == MemStat(last.pre[Answering(last.pre, last.name)], last.name)
        IN  /\ last.err = a.err
            /\ last.fi = a.fi
            /\ tiers = last.pre
            /\ pending = last.pend

\* A Stat that the cache tier failed and the store answered.
C32_Witness ==
    /\ last.op = "Stat" /\ last.err = Nil
    /\ MemStat(last.pre[1], last.name).err # Nil
    /\ last.fi.name # <<>>

(***************************************************************************)
(* C33 (SpecOps).  In a chain of write-once memory filesystems driven only *)
(* through the composition (ReadFile, WriteFile, Open, Stat, and the fills *)
(* ReadFile starts, in any order), in every reachable state every file of  *)
(* a cache tier is a file of its store with the same content: it is read   *)
(* from the store (in a chain, the composition of the tiers below) and     *)
(* from the innermost store with that content.                             *)
(***************************************************************************)
C33_CacheSubsetOfStore ==
    \A i \in 1..(Len(tiers) - 1) :
        LET files == WalkFiles(tiers[i].root, NameDot)
        IN  \A k \in 1..Len(files) :
                /\ ReadFile(tiers, i + 1, files[k].path).err = Nil
                /\ ReadFile(tiers, i + 1, files[k].path).b = files[k].f.content
                /\ MemReadFile(tiers[Len(tiers)], files[k].path)
                      = [err |-> Nil, b |-> files[k].f.content]

\* Both cache tiers of a chain of three hold a file, put there by fills.
C33_Witness ==
    /\ Len(tiers) = 3
    /\ last.op = "fill" /\ last.err = Nil
    /\ Len(WalkFiles(tiers[1].root, NameDot)) > 0
    /\ Len(WalkFiles(tiers[2].root, NameDot)) > 0

(***************************************************************************)
(* C34 (SpecOps).  Two ReadFile calls for one name that both miss a memory *)
(* cache tier (the second misses while the fill of the first has not run): *)
(* each returns the store's bytes without error and starts a fill of its   *)
(* own, so two fills are started; the fill that runs first succeeds, the   *)
(* other fails with fs.ErrExist and changes nothing, and the cache holds   *)
(* one entry for the name, with the store's content.                       *)
(***************************************************************************)
Copies(f, bag) == IF BagIn(f, bag) THEN CopiesIn(f, bag) ELSE 0

EntriesAt(s, name) ==
    LET files == WalkFiles(s.root, NameDot)
    IN  {k \in 1..Len(files) : files[k].path = name}

C35_FrozenTreeImmutable ==
    (/\ last.op \in {"WriteFile", "OpenFile", "Remove", "RemoveAll", "Write", "Close"}
     /\ last.pre[1].ro)
        => tiers[1].root = last.pre[1].root

(***************************************************************************)
(* C36 (SpecFreeze).  With RO() running concurrently with WriteFile calls  *)
(* on one memory filesystem: every insertion of a node by a WriteFile      *)
(* happens before RO() has returned, and every WriteFile that starts after *)
(* RO() has returned fails without touching the tree.                      *)
(***************************************************************************)
C36_NoWriteAfterFreeze ==
    /\ last.op = "addFile" => ~tiers[1].ro
    /\ (last.op = "WriteFile" /\ tiers[1].ro)
          => /\ procs.w[last.lvl].err # Nil
             /\ procs.w[last.lvl].pc = "done"

(***************************************************************************)
(* C37 (SpecMemFiles).  When a handle that OpenFile returned for the flags *)
(* O_WRONLY|O_CREATE, for a file it created or for a file that existed,    *)
(* has been written and closed, and the name is still a file of the tree,  *)
(* ReadFile of the name returns the content written through the handle.    *)
(***************************************************************************)
C37_HandleWriteReadsBack ==
    (/\ last.op = "Close"
     /\ last.flags = O_WRONLY + O_CREATE
     /\ last.content # ""
     /\ MemReadFile(last.pre[1], last.name).err = Nil)
        => MemReadFile(tiers[1], last.name) = [err |-> Nil, b |-> last.content]

(***************************************************************************)
(* C38 (SpecDisk).  In every state of the disk cache between operations    *)
(* the eviction index is consistent: a name is a key of byName exactly     *)
(* when the ordered structure holds an entry for it, that entry is the one *)
(* byName records (same expiry), and a name whose entry a sweep has        *)
(* evicted is no longer a key of byName.                                   *)
(***************************************************************************)
C38_IndexViewsAgree ==
    /\ \A n \in DiskNames :
          n \in DOMAIN dsk.index.byName <=> EntriesOf(dsk, n) # {}
    /\ \A n \in DOMAIN dsk.index.byName : EntriesOf(dsk, n) = {dsk.index.byName[n]}
    /\ last.op = "Sweep" =>
          \A n \in DiskNames :
              (EntriesOf(last.dpre, n) # {} /\ EntriesOf(dsk, n) = {})
                  => n \notin DOMAIN dsk.index.byName

(***************************************************************************)
(* C39 (SpecDiskFiles).  Distinct names of the disk cache have distinct    *)
(* backing files: a WriteFile of one name changes neither what ReadFile    *)
(* nor what Stat returns for any other name, and a sweep takes no backing   *)
(* file away from a name whose entry it has left in the index.             *)
(***************************************************************************)
C39_DistinctBackingFiles ==
    /\ last.op = "WriteFile" =>
          \A n2 \in SameFileNames \ {last.name} :
              /\ DiskReadFile(dsk, n2) = DiskReadFile(last.dpre, n2)
              /\ DiskStat(dsk, n2) = DiskStat(last.dpre, n2)
    /\ last.op = "Sweep" =>
          \A n2 \in SameFileNames :
              (HasFile(last.dpre, n2) /\ EntriesOf(dsk, n2) # {}) => HasFile(dsk, n2)

====
